---- MODULE Spec2Model ----
(***************************************************************************)
(* Match-scouting core of Maneuver-2026: the live action-capture tracker   *)
(* of the auto and teleop field maps (pending action, selection modes,     *)
(* stuck and broken-down intervals, action log) and the action->counter    *)
(* transformation.                                                         *)
(*                                                                         *)
(* Every React event handler runs to completion on the state of the last   *)
(* render and its state updates are committed together, so one handler     *)
(* (together with the effects its render triggers) is one atomic action.   *)
(* A handler is reached only through the button that carries it, so the    *)
(* rendering condition and the disabled attribute of that button are part  *)
(* of the action: a tap on a button that is rendered but disabled changes  *)
(* nothing.                                                                *)
(***************************************************************************)
EXTENDS Integers, Sequences, FiniteSets, TLC

(***************************************************************************)
(* Bounds of the model.                                                    *)
(***************************************************************************)
MaxActions == 1      \* actions explored in a log after the start position
MaxHistory == 1      \* longest quantity history explored

StartMs == 500       \* Date.now() when the tracker is mounted
MaxTicks == 1        \* clock ticks explored after the first instant
TickMs == 500        \* milliseconds per clock tick

(***************************************************************************)
(* Optional values (undefined / null in the source) are sequences of       *)
(* length 0 or 1.                                                          *)
(***************************************************************************)
None == <<>>
Some(x) == <<x>>
IsSome(o) == o # <<>>
Val(o) == o[1]

Undefined == "undefined"

Abs(n) == IF n < 0 THEN -n ELSE n
Max(a, b) == IF a >= b THEN a ELSE b


(***************************************************************************)
(* Field elements the scout can tap.                                       *)
(***************************************************************************)
SHOT_DISTANCES_KEYS == {"shot_hub"}
StuckKeys == {"trench1", "bump1"}
AUTO_START_KEYS == {"trench1", "hub"}
TeleopElements ==
    {"trench1", "hub", "pass", "collect_neutral", "tower", "defense_alliance",
     "steal"}
AutoElements ==
    {"trench1", "bump1", "hub", "depot", "tower", "pass"}
ElementKeys == TeleopElements \cup AutoElements \cup SHOT_DISTANCES_KEYS

\* values offered by the quantity buttons of the popup
FuelOptions == {1, 2}
CLIMB_LEVELS == {"L1", "L2"}
ClimbResults == {"success", "fail"}

VARIABLES
    phase,                \* "auto" or "teleop": the field map that is mounted
    actions,              \* the action log (props.actions)
    pendingWaypoint,      \* None or Some(draft)
    accumulatedFuel,
    fuelHistory,
    isSelectingScore,
    isSelectingPass,
    isSelectingCollect,
    selectedStartKey,     \* auto: None or Some(key)
    stuckStarts,          \* key -> None or Some(start time)
    stuckElementKey,      \* auto: None or Some(key) of a potential stuck
    climbLevel,           \* teleop: None or Some(level)
    climbResult,          \* None or Some("success" / "fail")
    showPostClimbProceed,
    brokenDownStart,      \* None or Some(start time)
    totalBrokenDownTime,
    localStorage,         \* the phase's BrokenDownStart / BrokenDownTime keys
    now,                  \* Date.now()
    matchData,            \* input of transformActionsToCounters
    result,               \* None or Some(record returned by the last call)
    calls,                \* number of calls of transformActionsToCounters
    robotStatus,          \* the status object of each phase (StatusToggles)
    pointTable,           \* the season's point values (game-schema)
    input,                \* argument of the calculation under check
    output                \* None or Some(value the calculation returned)

logVars == <<actions>>
fuelVars == <<accumulatedFuel, fuelHistory>>
selVars == <<isSelectingScore, isSelectingPass, isSelectingCollect>>
climbVars == <<climbLevel, climbResult, showPostClimbProceed>>
stuckVars == <<stuckStarts, stuckElementKey>>
bdVars == <<brokenDownStart, totalBrokenDownTime, localStorage>>
xformVars == <<matchData, result, calls, robotStatus>>
calcVars == <<pointTable, input, output>>
trackerVars ==
    <<phase, actions, pendingWaypoint, accumulatedFuel, fuelHistory,
      isSelectingScore, isSelectingPass, isSelectingCollect, selectedStartKey,
      stuckStarts, stuckElementKey, climbLevel, climbResult,
      showPostClimbProceed, brokenDownStart, totalBrokenDownTime,
      localStorage, now>>
vars == <<trackerVars, xformVars, calcVars>>


(***************************************************************************)
(* Records.                                                                *)
(***************************************************************************)
\* amountLabel: a display string built from a word and a number
Label(kind, n) == [kind |-> kind, n |-> n]
NoLabel == Label(Undefined, 0)

\* PathWaypoint.  position is a function of the tapped element alone and is
\* carried by `action` for shots; the id comes from the context's generateId
\* and is read by no handler.  Neither is recorded.
Waypoint(type, action, fuelDelta, amountLabel, timestamp) ==
    [type |-> type, action |-> action, fuelDelta |-> fuelDelta,
     amountLabel |-> amountLabel, timestamp |-> timestamp,
     climbLevel |-> None, climbResult |-> None]

isBrokenDown == brokenDownStart # None

StuckStart(key) == IF key \in DOMAIN stuckStarts THEN stuckStarts[key] ELSE None
isAnyStuck == \E k \in DOMAIN stuckStarts : IsSome(stuckStarts[k])

canUndo == Len(actions) > 0

\* `a.fuelDelta || 0`
FuelOrZero(a) == IF IsSome(a.fuelDelta) THEN Val(a.fuelDelta) ELSE 0

RECURSIVE SumAbsFuel(_, _)
SumAbsFuel(log, type) ==
    IF log = <<>> THEN 0
    ELSE (IF log[1].type = type THEN Abs(FuelOrZero(log[1])) ELSE 0)
         + SumAbsFuel(Tail(log), type)

totalFuelScored == SumAbsFuel(actions, "score")
totalFuelPassed == SumAbsFuel(actions, "pass")

(***************************************************************************)
(* The action log of the parent page.                                      *)
(***************************************************************************)
\* the log is explored up to MaxActions entries after the start position
LogFull(w) ==
    /\ w.type # "start"
    /\ Cardinality({i \in 1..Len(actions) : actions[i].type # "start"}) >= MaxActions

onAddAction(w) ==
    /\ ~LogFull(w)
    /\ actions' = Append(actions, w)

undoLast(log) ==
    IF Len(log) > 0 THEN SubSeq(log, 1, Len(log) - 1) ELSE log

onUndo == actions' = undoLast(actions)

resetFuel ==
    /\ accumulatedFuel' = 0
    /\ fuelHistory' = <<>>

\* setPendingWaypoint that also commits the draft
OpenPendingAndAppend(w) ==
    /\ pendingWaypoint' = Some(w)
    /\ onAddAction(w)

\* setPendingWaypoint of a draft whose time is kept in seconds
OpenPendingSeconds(w) ==
    /\ pendingWaypoint' = Some([w EXCEPT !.timestamp = w.timestamp \div 1000])
    /\ UNCHANGED actions

\* setPendingWaypoint(w): a draft is opened, nothing is appended
OpenPending(w) ==
    /\ pendingWaypoint' = Some(w)
    /\ UNCHANGED actions

addWaypoint(type, action, fuelDelta, amountLabel) ==
    onAddAction(Waypoint(type, action, fuelDelta, amountLabel, now))

(***************************************************************************)
(* handleInteractionEnd (the same text in both field maps).  It reads the  *)
(* selection flags of the last render; a flag set earlier in the same      *)
(* handler is not yet visible to it.                                       *)
(***************************************************************************)
\* handleInteractionEnd that leaves the selection mode on when it opens a draft
handleInteractionEndKeepsMode(shot_action, isPassing, isCollecting) ==
    IF isSelectingScore THEN
        /\ OpenPending(Waypoint("score", shot_action, Some(-8),
                                Label("...", 0), now))
        /\ accumulatedFuel' = 0
        /\ fuelHistory' = <<>>
        /\ UNCHANGED selVars
    ELSE IF isSelectingPass \/ isPassing THEN
        /\ OpenPending(Waypoint("pass", "partner", Some(0),
                                Label("...", 0), now))
        /\ accumulatedFuel' = 0
        /\ fuelHistory' = <<>>
        /\ UNCHANGED selVars
    ELSE IF isSelectingCollect \/ isCollecting THEN
        /\ addWaypoint("collect", "field", Some(8), NoLabel)
        /\ isSelectingCollect' = FALSE
        /\ UNCHANGED <<pendingWaypoint, fuelVars, isSelectingScore,
                       isSelectingPass>>
    ELSE
        UNCHANGED <<pendingWaypoint, fuelVars, selVars, logVars>>

handleInteractionEnd(shot_action, isPassing, isCollecting) ==
    IF isSelectingScore THEN
        /\ OpenPending(Waypoint("score", shot_action, Some(-8),
                                Label("...", 0), now))
        /\ accumulatedFuel' = 0
        /\ fuelHistory' = <<>>
        /\ isSelectingScore' = FALSE
        /\ UNCHANGED <<isSelectingPass, isSelectingCollect>>
    ELSE IF isSelectingPass \/ isPassing THEN
        /\ OpenPending(Waypoint("pass", "partner", Some(0),
                                Label("...", 0), now))
        /\ accumulatedFuel' = 0
        /\ fuelHistory' = <<>>
        /\ isSelectingPass' = FALSE
        /\ UNCHANGED <<isSelectingScore, isSelectingCollect>>
    ELSE IF isSelectingCollect \/ isCollecting THEN
        /\ addWaypoint("collect", "field", Some(8), NoLabel)
        /\ isSelectingCollect' = FALSE
        /\ UNCHANGED <<pendingWaypoint, fuelVars, isSelectingScore,
                       isSelectingPass>>
    ELSE
        UNCHANGED <<pendingWaypoint, fuelVars, selVars, logVars>>

TraversalType(elementKey) ==
    IF elementKey \in {"trench1", "trench2"} THEN "trench" ELSE "bump"

(***************************************************************************)
(* Teleop field map.                                                       *)
(***************************************************************************)
\* the button of elementKey is on screen
TeleopRendered(elementKey) ==
    \/ /\ elementKey \in TeleopElements
       /\ pendingWaypoint = None /\ ~isSelectingScore /\ ~isSelectingPass
    \/ /\ elementKey \in SHOT_DISTANCES_KEYS
       /\ isSelectingScore

TeleopDisabled(elementKey) ==
    /\ elementKey \in TeleopElements
    /\ isAnyStuck /\ ~IsSome(StuckStart(elementKey))

\* the minimal action of a defense tap, whatever the element
MinimalActionDefense(type) == Waypoint("defense", Undefined, None, NoLabel, now)

\* `{ id, type, timestamp } as any`
MinimalAction(type) == Waypoint(type, Undefined, None, NoLabel, now)

TeleopHandleElementClick(elementKey) ==
    IF isSelectingScore THEN
        IF elementKey \in SHOT_DISTANCES_KEYS
        THEN /\ handleInteractionEnd(elementKey, FALSE, FALSE)
             /\ UNCHANGED <<climbVars>>
        ELSE UNCHANGED <<pendingWaypoint, fuelVars, selVars, logVars, climbVars>>
    ELSE IF pendingWaypoint # None \/ isSelectingPass \/ isBrokenDown THEN
        UNCHANGED <<pendingWaypoint, fuelVars, selVars, logVars, climbVars>>
    ELSE IF elementKey \in {"trench1", "trench2", "bump1", "bump2"} THEN
        /\ addWaypoint("traversal", TraversalType(elementKey), None, NoLabel)
        /\ UNCHANGED <<pendingWaypoint, fuelVars, selVars, climbVars>>
    ELSE IF elementKey = "hub" THEN
        /\ isSelectingScore' = TRUE
        /\ UNCHANGED <<pendingWaypoint, fuelVars, isSelectingPass,
                       isSelectingCollect, logVars, climbVars>>
    ELSE IF elementKey \in {"pass", "pass_alliance", "pass_opponent"} THEN
        \* setIsSelectingPass(true), then handleInteractionEnd sets it false
        /\ handleInteractionEnd(elementKey, TRUE, FALSE)
        /\ UNCHANGED <<climbVars>>
    ELSE IF elementKey \in {"collect_neutral", "collect_alliance"} THEN
        /\ handleInteractionEnd(elementKey, FALSE, TRUE)
        /\ UNCHANGED <<climbVars>>
    ELSE IF elementKey = "tower" THEN
        /\ OpenPending(Waypoint("climb", "attempt", None, NoLabel, now))
        /\ climbLevel' = None
        /\ climbResult' = Some("success")
        /\ UNCHANGED <<fuelVars, selVars, showPostClimbProceed>>
    ELSE IF elementKey \in {"defense_alliance", "defense_neutral",
                            "defense_opponent"} THEN
        /\ onAddAction(MinimalAction("defense"))
        /\ UNCHANGED <<pendingWaypoint, fuelVars, selVars, climbVars>>
    ELSE IF elementKey = "steal" THEN
        /\ onAddAction(MinimalAction("steal"))
        /\ UNCHANGED <<pendingWaypoint, fuelVars, selVars, climbVars>>
    ELSE
        UNCHANGED <<pendingWaypoint, fuelVars, selVars, logVars, climbVars>>

TeleopTapElement(elementKey) ==
    /\ phase = "teleop"
    /\ TeleopRendered(elementKey)
    /\ IF TeleopDisabled(elementKey)
       THEN /\ UNCHANGED <<pendingWaypoint, fuelVars, selVars, logVars, climbVars>>
       ELSE /\ TeleopHandleElementClick(elementKey)
    /\ UNCHANGED <<phase, selectedStartKey, stuckVars, bdVars, now, xformVars, calcVars>>


(***************************************************************************)
(* PendingWaypointPopup: what enables its confirm button.                  *)
(***************************************************************************)
isClimb == IsSome(pendingWaypoint) /\ Val(pendingWaypoint).type = "climb"

\* canConfirm whose quantity test is >= 0
canConfirmZero(climbWithLevels) ==
    IF isClimb
    THEN (IF climbWithLevels THEN climbLevel # None /\ climbResult # None
          ELSE climbResult # None)
    ELSE accumulatedFuel >= 0

canConfirm(climbWithLevels) ==
    IF isClimb
    THEN (IF climbWithLevels THEN climbLevel # None /\ climbResult # None
          ELSE climbResult # None)
    ELSE accumulatedFuel > 0

(***************************************************************************)
(* Teleop popup handlers.  The effect of lines 181-185 (resetFuel whenever *)
(* a render finds pendingWaypoint cleared) is part of every handler that   *)
(* clears it.                                                              *)
(***************************************************************************)
\* handleFuelSelect that adds the amount without pushing it
handleFuelSelectNoPush(amount) ==
    /\ accumulatedFuel' = accumulatedFuel + amount
    /\ UNCHANGED fuelHistory

handleFuelSelect(amount) ==
    /\ accumulatedFuel' = accumulatedFuel + amount
    /\ fuelHistory' = Append(fuelHistory, amount)

\* handleFuelConfirm that stamps the action with the time of the confirm
handleFuelConfirmNow ==
    IF pendingWaypoint = None \/ accumulatedFuel = 0
    THEN UNCHANGED <<actions, pendingWaypoint, fuelVars>>
    ELSE /\ onAddAction([Val(pendingWaypoint) EXCEPT
                !.fuelDelta = Some(IF Val(pendingWaypoint).type = "score"
                                   THEN -accumulatedFuel ELSE accumulatedFuel),
                !.amountLabel = Label("", accumulatedFuel),
                !.timestamp = now])
         /\ pendingWaypoint' = None
         /\ accumulatedFuel' = 0
         /\ fuelHistory' = <<>>

\* handleFuelConfirm that commits the draft as it was opened
handleFuelConfirmDraft ==
    IF pendingWaypoint = None \/ accumulatedFuel = 0
    THEN UNCHANGED <<actions, pendingWaypoint, fuelVars>>
    ELSE /\ onAddAction(Val(pendingWaypoint))
         /\ pendingWaypoint' = None
         /\ accumulatedFuel' = 0
         /\ fuelHistory' = <<>>

handleFuelConfirm ==
    IF pendingWaypoint = None \/ accumulatedFuel = 0
    THEN UNCHANGED <<actions, pendingWaypoint, fuelVars>>
    ELSE /\ onAddAction([Val(pendingWaypoint) EXCEPT
                !.fuelDelta = Some(IF Val(pendingWaypoint).type = "score"
                                   THEN -accumulatedFuel ELSE accumulatedFuel),
                !.amountLabel = Label("", accumulatedFuel)])
         /\ pendingWaypoint' = None
         /\ accumulatedFuel' = 0
         /\ fuelHistory' = <<>>

\* handleFuelCancel that leaves the quantity as it is
handleFuelCancelKeepsFuel ==
    /\ pendingWaypoint' = None
    /\ UNCHANGED fuelVars
    /\ isSelectingScore' = FALSE
    /\ isSelectingPass' = FALSE
    /\ UNCHANGED isSelectingCollect

handleFuelCancel ==
    /\ pendingWaypoint' = None
    /\ accumulatedFuel' = 0
    /\ fuelHistory' = <<>>
    /\ isSelectingScore' = FALSE
    /\ isSelectingPass' = FALSE
    /\ UNCHANGED isSelectingCollect

\* handleFuelUndo that steps the quantity down without reading the history
handleFuelUndoByOne ==
    /\ accumulatedFuel' = accumulatedFuel - 1
    /\ fuelHistory' = SubSeq(fuelHistory, 1, Len(fuelHistory) - 1)

handleFuelUndo ==
    IF Len(fuelHistory) = 0
    THEN UNCHANGED fuelVars
    ELSE /\ accumulatedFuel' = accumulatedFuel - fuelHistory[Len(fuelHistory)]
         /\ fuelHistory' = SubSeq(fuelHistory, 1, Len(fuelHistory) - 1)

handleClimbCancel ==
    /\ pendingWaypoint' = None
    /\ climbLevel' = None
    /\ resetFuel
    /\ UNCHANGED <<climbResult, showPostClimbProceed>>

\* the inline onConfirm of a climb draft without its test, the outcome
\* left out of the action
TeleopClimbConfirmNoResult ==
    /\ onAddAction([Val(pendingWaypoint) EXCEPT
           !.action = IF climbLevel = None THEN Undefined ELSE Val(climbLevel),
           !.climbLevel = climbLevel])
    /\ pendingWaypoint' = None
    /\ climbLevel' = None
    /\ climbResult' = Some("success")
    /\ showPostClimbProceed' = TRUE
    /\ resetFuel

\* the inline onConfirm of a climb draft
TeleopClimbConfirm ==
    IF climbLevel # None /\ climbResult # None
    THEN /\ onAddAction([Val(pendingWaypoint) EXCEPT
                !.action = Val(climbLevel),
                !.amountLabel = Label(Val(climbLevel),
                                      IF Val(climbResult) = "success" THEN 1 ELSE 0),
                !.climbLevel = climbLevel,
                !.climbResult = climbResult])
         /\ pendingWaypoint' = None
         /\ climbLevel' = None
         /\ climbResult' = Some("success")
         /\ showPostClimbProceed' = TRUE
         /\ resetFuel
    ELSE UNCHANGED <<actions, pendingWaypoint, climbVars, fuelVars>>

TeleopFuelSelect(amount) ==
    /\ phase = "teleop"
    /\ pendingWaypoint # None /\ ~isClimb
    /\ Len(fuelHistory) < MaxHistory
    /\ handleFuelSelect(amount)
    /\ UNCHANGED <<phase, logVars, pendingWaypoint, selVars, selectedStartKey,
                   stuckVars, climbVars, bdVars, now, xformVars, calcVars>>

\* the undo button of the popup is disabled exactly when handleFuelUndo
\* returns at once
TeleopFuelUndo ==
    /\ phase = "teleop"
    /\ pendingWaypoint # None /\ ~isClimb
    /\ handleFuelUndo
    /\ UNCHANGED <<phase, logVars, pendingWaypoint, selVars, selectedStartKey,
                   stuckVars, climbVars, bdVars, now, xformVars, calcVars>>

TeleopConfirm ==
    /\ phase = "teleop"
    /\ pendingWaypoint # None
    /\ IF ~canConfirm(TRUE)
       THEN /\ UNCHANGED <<actions, pendingWaypoint, fuelVars, climbVars>>
       ELSE /\ IF isClimb
               THEN TeleopClimbConfirm
               ELSE handleFuelConfirm /\ UNCHANGED climbVars
    /\ UNCHANGED <<phase, selVars, selectedStartKey, stuckVars, bdVars,
                   now, xformVars, calcVars>>

TeleopCancel ==
    /\ phase = "teleop"
    /\ pendingWaypoint # None
    /\ IF isClimb
       THEN handleClimbCancel /\ UNCHANGED selVars
       ELSE handleFuelCancel /\ UNCHANGED climbVars
    /\ UNCHANGED <<phase, logVars, selectedStartKey, stuckVars, bdVars, now,
                   xformVars, calcVars>>

TeleopClimbLevelSelect(level) ==
    /\ phase = "teleop"
    /\ isClimb /\ climbLevel = None
    /\ climbLevel' = Some(level)
    /\ UNCHANGED <<phase, logVars, pendingWaypoint, fuelVars, selVars,
                   selectedStartKey, stuckVars, climbResult,
                   showPostClimbProceed, bdVars, now, xformVars, calcVars>>

TeleopClimbResultSelect(r) ==
    /\ phase = "teleop"
    /\ isClimb /\ climbLevel # None
    /\ climbResult' = Some(r)
    /\ UNCHANGED <<phase, logVars, pendingWaypoint, fuelVars, selVars,
                   selectedStartKey, stuckVars, climbLevel,
                   showPostClimbProceed, bdVars, now, xformVars, calcVars>>

(***************************************************************************)
(* Overlays and header, the same text in both field maps.                  *)
(***************************************************************************)
CancelScoreSelection ==
    /\ isSelectingScore
    /\ isSelectingScore' = FALSE
    /\ UNCHANGED <<phase, logVars, pendingWaypoint, fuelVars, isSelectingPass,
                   isSelectingCollect, selectedStartKey, stuckVars, climbVars,
                   bdVars, now, xformVars, calcVars>>

Stay ==
    /\ showPostClimbProceed
    /\ showPostClimbProceed' = FALSE
    /\ UNCHANGED <<phase, logVars, pendingWaypoint, fuelVars, selVars,
                   selectedStartKey, stuckVars, climbLevel, climbResult, bdVars,
                   now, xformVars, calcVars>>

handleBrokenDownToggle ==
    IF brokenDownStart # None /\ Val(brokenDownStart) # 0
    THEN /\ totalBrokenDownTime' = totalBrokenDownTime + (now - Val(brokenDownStart))
         /\ brokenDownStart' = None
         /\ localStorage' =
                [BrokenDownStart |-> None,
                 BrokenDownTime |-> Some(totalBrokenDownTime + (now - Val(brokenDownStart)))]
    ELSE /\ brokenDownStart' = Some(now)
         /\ localStorage' = [localStorage EXCEPT !.BrokenDownStart = Some(now)]
         /\ UNCHANGED totalBrokenDownTime

BrokenDownToggle ==
    /\ handleBrokenDownToggle
    /\ UNCHANGED <<phase, logVars, pendingWaypoint, fuelVars, selVars,
                   selectedStartKey, stuckVars, climbVars, now, xformVars, calcVars>>

\* handleUndoWrapper that returns after clearing an open broken-down interval
handleUndoWrapperSkips ==
    /\ brokenDownStart' = None
    /\ IF brokenDownStart # None THEN UNCHANGED actions ELSE onUndo
    /\ UNCHANGED <<totalBrokenDownTime, localStorage>>

\* handleUndoWrapper / handleUndo
handleUndoWrapper ==
    /\ brokenDownStart' = None
    /\ onUndo
    /\ UNCHANGED <<totalBrokenDownTime, localStorage>>

Undo ==
    /\ IF ~canUndo
       THEN /\ UNCHANGED <<actions, bdVars>>
       ELSE /\ handleUndoWrapper
    /\ UNCHANGED <<phase, pendingWaypoint, fuelVars, selVars,
                   selectedStartKey, stuckVars, climbVars, now, xformVars, calcVars>>

(***************************************************************************)
(* Auto field map.                                                         *)
(***************************************************************************)
isPopupActive ==
    \/ pendingWaypoint # None \/ isSelectingScore \/ isSelectingPass
    \/ isSelectingCollect \/ selectedStartKey # None

AutoRendered(elementKey) ==
    \/ /\ ~isSelectingScore /\ ~isSelectingPass /\ ~isSelectingCollect
       /\ IF Len(actions) = 0 THEN elementKey \in AUTO_START_KEYS
          ELSE elementKey \in AutoElements
    \/ /\ elementKey \in SHOT_DISTANCES_KEYS
       /\ isSelectingScore

\* isDisabled that forgets isPopupActive
AutoDisabledIgnoresPopup(elementKey) ==
    /\ elementKey \notin SHOT_DISTANCES_KEYS
    /\ IF Len(actions) = 0 THEN isPopupActive
       ELSE isAnyStuck /\ ~IsSome(StuckStart(elementKey))

AutoDisabled(elementKey) ==
    /\ elementKey \notin SHOT_DISTANCES_KEYS
    /\ IF Len(actions) = 0 THEN isPopupActive
       ELSE isPopupActive \/ (isAnyStuck /\ ~IsSome(StuckStart(elementKey)))

\* Math.floor(ms / 1000)
RoundSecondsFloor(ms) == ms \div 1000

\* Math.round(ms / 1000) for ms >= 0
RoundSeconds(ms) == (ms + 500) \div 1000

AutoHandleElementClick(elementKey) ==
    IF IsSome(StuckStart(elementKey)) THEN
        \* 1. persistent stuck resolution
        /\ addWaypoint("traversal",
                       IF TraversalType(elementKey) = "trench" THEN "trench-stuck"
                       ELSE "bump-stuck",
                       None,
                       Label("s", RoundSeconds(now - Val(StuckStart(elementKey)))))
        /\ stuckStarts' = [stuckStarts EXCEPT ![elementKey] = None]
        /\ UNCHANGED <<pendingWaypoint, fuelVars, selVars, selectedStartKey,
                       stuckElementKey, climbVars>>
    ELSE IF stuckElementKey = Some(elementKey) THEN
        \* 2. potential stuck promoted by the second tap
        /\ stuckElementKey' = None
        /\ stuckStarts' = [stuckStarts EXCEPT ![elementKey] = Some(now)]
        /\ UNCHANGED <<pendingWaypoint, fuelVars, selVars, selectedStartKey,
                       logVars, climbVars>>
    ELSE IF isSelectingScore THEN
        IF elementKey \in SHOT_DISTANCES_KEYS
        THEN /\ handleInteractionEnd(elementKey, FALSE, FALSE)
             /\ UNCHANGED <<selectedStartKey, stuckVars, climbVars>>
        ELSE UNCHANGED <<pendingWaypoint, fuelVars, selVars, selectedStartKey,
                         logVars, stuckVars, climbVars>>
    ELSE IF \/ pendingWaypoint # None \/ isSelectingPass \/ isSelectingCollect
            \/ selectedStartKey # None \/ isAnyStuck \/ isBrokenDown THEN
        UNCHANGED <<pendingWaypoint, fuelVars, selVars, selectedStartKey,
                    logVars, stuckVars, climbVars>>
    ELSE IF Len(actions) = 0 THEN
        /\ selectedStartKey' =
               IF elementKey \in {"trench1", "bump1", "hub", "bump2", "trench2"}
               THEN Some(elementKey) ELSE selectedStartKey
        /\ UNCHANGED <<pendingWaypoint, fuelVars, selVars, logVars, stuckVars,
                       climbVars>>
    ELSE IF elementKey = "hub" THEN
        /\ isSelectingScore' = TRUE
        /\ UNCHANGED <<pendingWaypoint, fuelVars, isSelectingPass,
                       isSelectingCollect, selectedStartKey, logVars, stuckVars,
                       climbVars>>
    ELSE IF elementKey \in {"depot", "outpost"} THEN
        /\ addWaypoint("collect", elementKey, Some(8), NoLabel)
        /\ UNCHANGED <<pendingWaypoint, fuelVars, selVars, selectedStartKey,
                       stuckVars, climbVars>>
    ELSE IF elementKey = "tower" THEN
        /\ OpenPending(Waypoint("climb", "attempt", None, NoLabel, now))
        /\ climbResult' = Some("success")
        /\ UNCHANGED <<fuelVars, selVars, selectedStartKey, stuckVars,
                       climbLevel, showPostClimbProceed>>
    ELSE IF elementKey \in {"trench1", "trench2", "bump1", "bump2"} THEN
        /\ addWaypoint("traversal", TraversalType(elementKey), None, NoLabel)
        /\ UNCHANGED <<pendingWaypoint, fuelVars, selVars, selectedStartKey,
                       stuckVars, climbVars>>
    ELSE IF elementKey \in {"pass", "pass_alliance"} THEN
        /\ handleInteractionEnd(elementKey, TRUE, FALSE)
        /\ UNCHANGED <<selectedStartKey, stuckVars, climbVars>>
    ELSE IF elementKey \in {"collect_neutral", "collect_alliance"} THEN
        /\ handleInteractionEnd(elementKey, FALSE, TRUE)
        /\ UNCHANGED <<selectedStartKey, stuckVars, climbVars>>
    ELSE IF elementKey = "opponent_foul" THEN
        /\ addWaypoint("foul", "mid-line-penalty", None, NoLabel)
        /\ UNCHANGED <<pendingWaypoint, fuelVars, selVars, selectedStartKey,
                       stuckVars, climbVars>>
    ELSE
        UNCHANGED <<pendingWaypoint, fuelVars, selVars, selectedStartKey,
                    logVars, stuckVars, climbVars>>

AutoTapElement(elementKey) ==
    /\ phase = "auto"
    /\ AutoRendered(elementKey)
    /\ IF AutoDisabled(elementKey)
       THEN /\ UNCHANGED <<pendingWaypoint, fuelVars, selVars, selectedStartKey,
                           logVars, stuckVars, climbVars>>
       ELSE /\ AutoHandleElementClick(elementKey)
    /\ UNCHANGED <<phase, bdVars, now, xformVars, calcVars>>

\* The first tap of a potential stuck.  Nothing under src sets
\* stuckElementKey; the tap that reaches the traversal case is taken to.
MarkPotentialStuck(elementKey) ==
    /\ phase = "auto"
    /\ elementKey \in StuckKeys
    /\ AutoRendered(elementKey) /\ ~AutoDisabled(elementKey)
    /\ Len(actions) > 0 /\ ~isAnyStuck /\ ~isBrokenDown
    /\ stuckElementKey' = Some(elementKey)
    /\ UNCHANGED <<phase, logVars, pendingWaypoint, fuelVars, selVars,
                   selectedStartKey, stuckStarts, climbVars, bdVars, now,
                   xformVars, calcVars>>

\* the 5 s window of a potential stuck runs out
StuckTimeout ==
    /\ stuckElementKey # None
    /\ stuckElementKey' = None
    /\ UNCHANGED <<phase, logVars, pendingWaypoint, fuelVars, selVars,
                   selectedStartKey, stuckStarts, climbVars, bdVars, now,
                   xformVars, calcVars>>

AutoStartConfirm ==
    /\ phase = "auto"
    /\ Len(actions) = 0 /\ selectedStartKey # None
    /\ addWaypoint("start", Val(selectedStartKey), None, NoLabel)
    /\ selectedStartKey' = None
    /\ UNCHANGED <<phase, pendingWaypoint, fuelVars, selVars, stuckVars,
                   climbVars, bdVars, now, xformVars, calcVars>>

AutoStartCancel ==
    /\ phase = "auto"
    /\ Len(actions) = 0 /\ selectedStartKey # None
    /\ selectedStartKey' = None
    /\ UNCHANGED <<phase, logVars, pendingWaypoint, fuelVars, selVars,
                   stuckVars, climbVars, bdVars, now, xformVars, calcVars>>

AutoOnFuelSelect(value) ==
    /\ accumulatedFuel' = accumulatedFuel + value
    /\ fuelHistory' = Append(fuelHistory, value)

AutoOnFuelUndo ==
    IF Len(fuelHistory) = 0
    THEN UNCHANGED fuelVars
    ELSE /\ accumulatedFuel' = Max(0, accumulatedFuel - fuelHistory[Len(fuelHistory)])
         /\ fuelHistory' = SubSeq(fuelHistory, 1, Len(fuelHistory) - 1)

AutoOnConfirm ==
    LET p == Val(pendingWaypoint)
        delta == IF p.type = "climb" THEN 0
                 ELSE IF p.type \in {"score", "pass"} THEN -accumulatedFuel ELSE 0
        label == IF p.type = "climb"
                 THEN (IF climbResult = Some("success") THEN Label("Succeeded", 0)
                       ELSE Label("Failed", 0))
                 ELSE IF p.type = "score" THEN Label("+", accumulatedFuel)
                 ELSE Label("Pass", accumulatedFuel)
        action == IF p.type = "climb"
                  THEN (IF climbResult = Some("success") THEN "climb-success"
                        ELSE "climb-fail")
                  ELSE p.action
    IN /\ onAddAction([p EXCEPT !.fuelDelta = Some(delta),
                                !.amountLabel = label,
                                !.action = action])
       /\ pendingWaypoint' = None
       /\ accumulatedFuel' = 0
       /\ fuelHistory' = <<>>
       /\ climbResult' = None
       /\ showPostClimbProceed' = (IF p.type = "climb" THEN TRUE
                                   ELSE showPostClimbProceed)
       /\ UNCHANGED climbLevel

\* onCancel that forgets setAccumulatedFuel(0)
AutoOnCancelKeepsFuel ==
    /\ pendingWaypoint' = None
    /\ fuelHistory' = <<>>
    /\ UNCHANGED accumulatedFuel

AutoOnCancel ==
    /\ pendingWaypoint' = None
    /\ accumulatedFuel' = 0
    /\ fuelHistory' = <<>>

AutoFuelSelect(value) ==
    /\ phase = "auto"
    /\ pendingWaypoint # None /\ ~isClimb
    /\ Len(fuelHistory) < MaxHistory
    /\ AutoOnFuelSelect(value)
    /\ UNCHANGED <<phase, logVars, pendingWaypoint, selVars, selectedStartKey,
                   stuckVars, climbVars, bdVars, now, xformVars, calcVars>>

AutoFuelUndo ==
    /\ phase = "auto"
    /\ pendingWaypoint # None /\ ~isClimb
    /\ AutoOnFuelUndo
    /\ UNCHANGED <<phase, logVars, pendingWaypoint, selVars, selectedStartKey,
                   stuckVars, climbVars, bdVars, now, xformVars, calcVars>>

AutoClimbResultSelect(r) ==
    /\ phase = "auto"
    /\ isClimb
    /\ climbResult' = Some(r)
    /\ UNCHANGED <<phase, logVars, pendingWaypoint, fuelVars, selVars,
                   selectedStartKey, stuckVars, climbLevel,
                   showPostClimbProceed, bdVars, now, xformVars, calcVars>>

AutoConfirm ==
    /\ phase = "auto"
    /\ pendingWaypoint # None
    /\ IF ~canConfirm(FALSE)
       THEN /\ UNCHANGED <<actions, pendingWaypoint, fuelVars, climbVars>>
       ELSE /\ AutoOnConfirm
    /\ UNCHANGED <<phase, selVars, selectedStartKey, stuckVars, bdVars,
                   now, xformVars, calcVars>>

AutoCancel ==
    /\ phase = "auto"
    /\ pendingWaypoint # None
    /\ AutoOnCancel
    /\ UNCHANGED <<phase, logVars, selVars, selectedStartKey, stuckVars,
                   climbVars, bdVars, now, xformVars, calcVars>>

(***************************************************************************)
(* The tracker of one phase.                                               *)
(***************************************************************************)
\* no match has been handed to the transformation
\* a point table without entries
NoPoints == [auto |-> <<>>, teleop |-> <<>>, endgame |-> <<>>]

\* no button of the status toggles clicked yet
NoStatus == [auto |-> <<>>, teleop |-> <<>>, endgame |-> <<>>]

NoMatchData ==
    [autoActions |-> <<>>, teleopActions |-> <<>>, startPosition |-> None,
     autoRobotStatus |-> None, teleopRobotStatus |-> None,
     endgameRobotStatus |-> None, comment |-> ""]

TrackerInit ==
    /\ phase \in {"auto", "teleop"}
    /\ actions = <<>>
    /\ pendingWaypoint = None
    /\ accumulatedFuel = 0
    /\ fuelHistory = <<>>
    /\ isSelectingScore = FALSE
    /\ isSelectingPass = FALSE
    /\ isSelectingCollect = FALSE
    /\ selectedStartKey = None
    /\ stuckStarts = [k \in StuckKeys |-> None]
    /\ stuckElementKey = None
    /\ climbLevel = None
    /\ climbResult = None
    /\ showPostClimbProceed = FALSE
    /\ brokenDownStart = None
    /\ totalBrokenDownTime = 0
    /\ localStorage = [BrokenDownStart |-> None, BrokenDownTime |-> None]
    /\ now = StartMs

(***************************************************************************)
(* transformActionsToCounters.  Objects are functions on their keys; a key *)
(* that is absent or undefined is None.  An entry of an action array is    *)
(* given by the fields the transformation or the claims read: type and     *)
(* fuelDelta as the tracker writes them, and actionType.                   *)
(***************************************************************************)
MaxLogLen == 2       \* longest action array given to the transformation
MaxCalls == 2        \* calls of the transformation on one input

SeqsUpTo(S, n) == UNION {[1..k -> S] : k \in 0..n}

TrackerAction(type, fuelDelta) ==
    [type |-> type, fuelDelta |-> Some(fuelDelta), actionType |-> Undefined]
TemplateAction(actionType) ==
    [type |-> Undefined, fuelDelta |-> None, actionType |-> actionType]

ActionInputs ==
    {TrackerAction("score", -8), TemplateAction("action1"),
     TemplateAction("action2"), TemplateAction("action3")}

MatchDataInputs ==
    [autoActions : SeqsUpTo(ActionInputs, MaxLogLen),
     teleopActions : SeqsUpTo(ActionInputs, MaxLogLen),
     startPosition : {None, Some(<<FALSE, TRUE>>), Some(<<FALSE, FALSE>>)},
     autoRobotStatus : {None, Some([leftStartZone |-> TRUE])},
     teleopRobotStatus : {None, Some([playedDefense |-> TRUE])},
     endgameRobotStatus : {None, Some([success |-> TRUE])},
     comment : {"ok"}]

\* Array.prototype.findIndex(pos => pos === true): 0-based, -1 when none
RECURSIVE findIndexFrom(_, _)
findIndexFrom(arr, i) ==
    IF i > Len(arr) THEN -1
    ELSE IF arr[i] = TRUE THEN i - 1
    ELSE findIndexFrom(arr, i + 1)

\* an assignment that leaves the keys the target already has
ObjectAssignKeepsTarget(target, source) ==
    [k \in DOMAIN target \cup DOMAIN source |->
        IF k \in DOMAIN target THEN target[k] ELSE source[k]]

\* Object.assign(target, source)
ObjectAssign(target, source) ==
    [k \in DOMAIN target \cup DOMAIN source |->
        IF k \in DOMAIN source THEN source[k] ELSE target[k]]

\* a fold that counts every action, whatever its actionType
CountActionTypeAny(log, actionType) == Len(log)

RECURSIVE CountActionType(_, _)
CountActionType(log, actionType) ==
    IF log = <<>> THEN 0
    ELSE (IF log[1].actionType = actionType THEN 1 ELSE 0)
         + CountActionType(Tail(log), actionType)

\* the default structure, a module-level object that calls share
CarriedResult(startPosition) ==
    IF result # None THEN Val(result)
    ELSE [auto |-> [startPosition |-> startPosition, action1Count |-> 0,
                    action2Count |-> 0, action3Count |-> 0, action4Count |-> 0],
          teleop |-> [action1Count |-> 0, action2Count |-> 0, action3Count |-> 0],
          endgame |-> [success |-> FALSE, park |-> FALSE, failed |-> FALSE]]

\* the default structure without endgame.park
DefaultResultNoPark(startPosition) ==
    [auto |-> [startPosition |-> startPosition, action1Count |-> 0,
               action2Count |-> 0, action3Count |-> 0, action4Count |-> 0],
     teleop |-> [action1Count |-> 0, action2Count |-> 0, action3Count |-> 0],
     endgame |-> [success |-> FALSE, failed |-> FALSE]]

\* the default structure, built anew by every call
DefaultResult(startPosition) ==
    [auto |-> [startPosition |-> startPosition, action1Count |-> 0,
               action2Count |-> 0, action3Count |-> 0, action4Count |-> 0],
     teleop |-> [action1Count |-> 0, action2Count |-> 0, action3Count |-> 0],
     endgame |-> [success |-> FALSE, park |-> FALSE, failed |-> FALSE]]

\* the deletes without that of autoRobotStatus
ProcessedFieldsNoStatus ==
    {"autoActions", "teleopActions", "teleopRobotStatus",
     "endgameRobotStatus", "startPosition"}

ProcessedFields ==
    {"autoActions", "teleopActions", "autoRobotStatus", "teleopRobotStatus",
     "endgameRobotStatus", "startPosition"}

\* the object the deletes are applied to: `additionalFields`
DeleteTarget == "additionalFields"

\* the objects the call can reach, after its spread and its deletes:
\* `additionalFields = { ...matchData }` is a new object with the keys of
\* the argument; each delete removes a key of the object it is applied to
ObjectsAfterDeletes(md) ==
    LET spread == [matchData |-> md, additionalFields |-> md]
    IN [spread EXCEPT ![DeleteTarget] =
           [k \in DOMAIN @ \ ProcessedFields |-> @[k]]]

transformActionsToCounters(md) ==
    LET selectedPosition ==
            IF md.startPosition = None THEN None
            ELSE Some(findIndexFrom(Val(md.startPosition), 1))
        startPosition ==
            IF selectedPosition # None /\ Val(selectedPosition) >= 0
            THEN selectedPosition ELSE None
        r0 == DefaultResult(startPosition)
        r1 == [r0 EXCEPT
                 !.auto.action1Count = @ + CountActionType(md.autoActions, "action1"),
                 !.auto.action2Count = @ + CountActionType(md.autoActions, "action2"),
                 !.teleop.action1Count = @ + CountActionType(md.teleopActions, "action1"),
                 !.teleop.action2Count = @ + CountActionType(md.teleopActions, "action2")]
        r2 == [r1 EXCEPT
                 !.auto = IF md.autoRobotStatus # None
                          THEN ObjectAssign(@, Val(md.autoRobotStatus)) ELSE @,
                 !.teleop = IF md.teleopRobotStatus # None
                            THEN ObjectAssign(@, Val(md.teleopRobotStatus)) ELSE @,
                 !.endgame = IF md.endgameRobotStatus # None
                             THEN ObjectAssign(@, Val(md.endgameRobotStatus)) ELSE @]
        additionalFields == ObjectsAfterDeletes(md).additionalFields
    IN ObjectAssign(r2, additionalFields)

\* one call: the record returned, and the argument as the call leaves it
Transform ==
    /\ calls < MaxCalls
    /\ result' = Some(transformActionsToCounters(matchData))
    /\ matchData' = ObjectsAfterDeletes(matchData).matchData
    /\ calls' = calls + 1
    /\ UNCHANGED <<robotStatus, trackerVars, calcVars>>

\* no calculation is under way
CalcIdle ==
    /\ pointTable = NoPoints
    /\ input = None
    /\ output = None

\* no transformation is under way
TransformIdle ==
    /\ matchData = NoMatchData
    /\ result = None
    /\ calls = 0
    /\ robotStatus = NoStatus

Init ==
    /\ TrackerInit
    /\ matchData = NoMatchData
    /\ result = None
    /\ calls = 0
    /\ robotStatus = NoStatus
    /\ CalcIdle

Next ==
    \/ \E k \in ElementKeys : TeleopTapElement(k)
    \/ \E v \in FuelOptions : TeleopFuelSelect(v)
    \/ TeleopFuelUndo
    \/ TeleopConfirm
    \/ TeleopCancel
    \/ \E l \in CLIMB_LEVELS : TeleopClimbLevelSelect(l)
    \/ \E r \in ClimbResults : TeleopClimbResultSelect(r)
    \/ \E k \in ElementKeys : AutoTapElement(k)
    \/ \E k \in {"trench1"} : MarkPotentialStuck(k)
    \/ StuckTimeout
    \/ AutoStartConfirm
    \/ AutoStartCancel
    \/ \E v \in FuelOptions : AutoFuelSelect(v)
    \/ AutoFuelUndo
    \/ \E r \in ClimbResults : AutoClimbResultSelect(r)
    \/ AutoConfirm
    \/ AutoCancel
    \/ CancelScoreSelection
    \/ Stay
    \/ BrokenDownToggle
    \/ Undo

Spec == Init /\ [][Next]_vars

\* the transformation applied to every input of MatchDataInputs
InitTransform ==
    /\ TrackerInit
    /\ phase = "auto"
    /\ matchData \in MatchDataInputs
    /\ result = None
    /\ calls = 0
    /\ robotStatus = NoStatus
    /\ CalcIdle

NextTransform == Transform

SpecTransform == InitTransform /\ [][NextTransform]_vars

(***************************************************************************)
(* The tracker under a running clock.  The elements tapped are the ones    *)
(* that write a time: traversals, stuck intervals and drafts.              *)
(***************************************************************************)
ClockKeys == {"trench1", "bump1", "hub", "pass", "tower", "shot_hub"}
ClockFuel == {1}

\* Date.now() moves on between two events
Tick ==
    /\ now < StartMs + MaxTicks * TickMs
    /\ now' = now + TickMs
    /\ UNCHANGED <<phase, logVars, pendingWaypoint, fuelVars, selVars,
                   selectedStartKey, stuckVars, climbVars, bdVars, xformVars, calcVars>>

NextClock ==
    \/ Tick
    \/ \E k \in ClockKeys : TeleopTapElement(k)
    \/ \E v \in ClockFuel : TeleopFuelSelect(v)
    \/ TeleopConfirm
    \/ TeleopCancel
    \/ \E l \in {"L1"} : TeleopClimbLevelSelect(l)
    \/ \E k \in ClockKeys : AutoTapElement(k)
    \/ \E k \in StuckKeys : MarkPotentialStuck(k)
    \/ AutoStartConfirm
    \/ \E v \in ClockFuel : AutoFuelSelect(v)
    \/ AutoConfirm
    \/ AutoCancel
    \/ Undo

SpecClock == Init /\ [][NextClock]_vars

(***************************************************************************)
(* The broken-down interval across proceed and remount.  localStorage      *)
(* holds strings: a number is written with String and read with parseInt.  *)
(* A string of digits is the sequence of its digits.                       *)
(***************************************************************************)
MaxDowntime == 1000   \* proceed is explored up to this total downtime (ms)

\* String(n) of a non-negative integer
RECURSIVE StringOf(_)
StringOf(n) == IF n < 10 THEN <<n>> ELSE StringOf(n \div 10) \o <<n % 10>>

\* parseInt(saved, 10) of a string of digits
RECURSIVE parseInt(_)
parseInt(saved) ==
    IF Len(saved) = 1 THEN saved[1]
    ELSE 10 * parseInt(SubSeq(saved, 1, Len(saved) - 1)) + saved[Len(saved)]

\* localStorage.getItem(key): the string that setItem stored, or null
getItem(key) ==
    IF IsSome(localStorage[key]) THEN Some(StringOf(Val(localStorage[key])))
    ELSE None

\* the onProceed handed to the header: the open interval is added to the
\* stored total before the parent's onProceed leaves the page
Proceed ==
    /\ totalBrokenDownTime <= MaxDowntime
    /\ IF brokenDownStart # None /\ Val(brokenDownStart) # 0
       THEN localStorage' =
                [localStorage EXCEPT !.BrokenDownTime =
                    Some(totalBrokenDownTime + (now - Val(brokenDownStart)))]
       ELSE UNCHANGED localStorage
    /\ UNCHANGED <<phase, logVars, pendingWaypoint, fuelVars, selVars,
                   selectedStartKey, stuckVars, climbVars, brokenDownStart,
                   totalBrokenDownTime, now, xformVars, calcVars>>

\* the field map is mounted again (the page is reloaded or come back to):
\* the state of the component starts over, the broken-down state from what
\* is stored; the log is the parent's
Remount ==
    /\ brokenDownStart' =
           (IF IsSome(getItem("BrokenDownStart"))
            THEN Some(parseInt(Val(getItem("BrokenDownStart")))) ELSE None)
    /\ totalBrokenDownTime' =
           (IF IsSome(getItem("BrokenDownTime"))
            THEN parseInt(Val(getItem("BrokenDownTime"))) ELSE 0)
    /\ pendingWaypoint' = None
    /\ resetFuel
    /\ isSelectingScore' = FALSE
    /\ isSelectingPass' = FALSE
    /\ isSelectingCollect' = FALSE
    /\ selectedStartKey' = None
    /\ stuckStarts' = [k \in StuckKeys |-> None]
    /\ stuckElementKey' = None
    /\ climbLevel' = None
    /\ climbResult' = None
    /\ showPostClimbProceed' = FALSE
    /\ UNCHANGED <<phase, logVars, localStorage, now, xformVars, calcVars>>

NextBrokenDown ==
    \/ Tick
    \/ BrokenDownToggle
    \/ Undo
    \/ Proceed
    \/ Remount
    \/ \E k \in {"defense_alliance"} : TeleopTapElement(k)
    \/ \E k \in {"trench1"} : AutoTapElement(k)
    \/ AutoStartConfirm

SpecBrokenDown == Init /\ [][NextBrokenDown]_vars

(***************************************************************************)
(* The quantity popup on its own, with a longer history than the tracker   *)
(* as a whole is explored with.                                            *)
(***************************************************************************)
MaxTaps == 3

\* a quantity button of the teleop popup
TeleopFuelTap(amount) ==
    /\ phase = "teleop"
    /\ pendingWaypoint # None /\ ~isClimb
    /\ Len(fuelHistory) < MaxTaps
    /\ handleFuelSelect(amount)
    /\ UNCHANGED <<phase, logVars, pendingWaypoint, selVars, selectedStartKey,
                   stuckVars, climbVars, bdVars, now, xformVars, calcVars>>

\* a quantity button of the auto popup
AutoFuelTap(value) ==
    /\ phase = "auto"
    /\ pendingWaypoint # None /\ ~isClimb
    /\ Len(fuelHistory) < MaxTaps
    /\ AutoOnFuelSelect(value)
    /\ UNCHANGED <<phase, logVars, pendingWaypoint, selVars, selectedStartKey,
                   stuckVars, climbVars, bdVars, now, xformVars, calcVars>>

NextQuantity ==
    \/ \E k \in {"hub", "shot_hub", "pass", "tower"} : TeleopTapElement(k)
    \/ \E v \in FuelOptions : TeleopFuelTap(v)
    \/ TeleopFuelUndo
    \/ TeleopConfirm
    \/ TeleopCancel
    \/ \E k \in {"trench1", "hub", "shot_hub", "pass", "tower"} : AutoTapElement(k)
    \/ AutoStartConfirm
    \/ \E v \in FuelOptions : AutoFuelTap(v)
    \/ AutoFuelUndo
    \/ AutoConfirm
    \/ AutoCancel
    \/ Undo

SpecQuantity == Init /\ [][NextQuantity]_vars

(***************************************************************************)
(* scoring.ts.  An entry is [gameData |-> None or Some(g)]; g is a         *)
(* function from the phases it has to their records, and a record is a     *)
(* function from the keys it has to their values.  The point values are    *)
(* read through the accessors of game-schema; pointTable gives, per phase, *)
(* the value of every key that has one.                                    *)
(***************************************************************************)
MaxCount == 2

\* the record r with the key k set to v
WithField(r, k, v) ==
    [x \in DOMAIN r \cup {k} |-> IF x = k THEN v ELSE r[x]]

\* every record over a subset of keys, the value of a key k in vals[k]
RECURSIVE PartialRecords(_, _)
PartialRecords(keys, vals) ==
    IF keys = {} THEN {<<>>}
    ELSE LET k == CHOOSE x \in keys : TRUE
             rest == PartialRecords(keys \ {k}, vals)
         IN rest \cup {WithField(r, k, v) : r \in rest, v \in vals[k]}

RECURSIVE SumOver(_, _)
SumOver(S, f) ==
    IF S = {} THEN 0
    ELSE LET k == CHOOSE x \in S : TRUE
         IN f[k] + SumOver(S \ {k}, f)

\* getActionKeys()
ActionKeys == {"action1", "fuelScored"}
\* Object.keys(toggles.<phase>)
PhaseToggles ==
    [auto |-> {"autoToggle"}, teleop |-> {"teleopToggle"},
     endgame |-> {"option1", "toggle1", "climbL1"}]

\* getActionPoints(key, phase): 0 for a key without a value
getActionPoints(key, ph) ==
    IF key \in DOMAIN pointTable[ph] THEN pointTable[ph][key] ELSE 0

\* getEndgamePoints(key): 0 for a key without a value
getEndgamePoints(key) ==
    IF key \in DOMAIN pointTable.endgame THEN pointTable.endgame[key] ELSE 0

\* gameData?.[phase]?.[key] is there
HasField(entry, ph, key) ==
    /\ entry.gameData # None
    /\ ph \in DOMAIN Val(entry.gameData)
    /\ key \in DOMAIN Val(entry.gameData)[ph]

\* `gameData?.[phase]?.[key] as number` without `|| 0`: a missing counter
\* taken as one
CounterOrOne(entry, ph, key) ==
    IF HasField(entry, ph, key) THEN Val(entry.gameData)[ph][key] ELSE 1

\* `gameData?.[phase]?.[key] as number || 0`
CounterOrZero(entry, ph, key) ==
    IF HasField(entry, ph, key) THEN Val(entry.gameData)[ph][key] ELSE 0

\* `gameData?.[phase]?.[key] === true`
IsTrue(entry, ph, key) ==
    HasField(entry, ph, key) /\ Val(entry.gameData)[ph][key] = TRUE

\* gameData?.[phase]?.[key] is truthy, for a toggle: a boolean or missing
Truthy(entry, ph, key) ==
    HasField(entry, ph, key) /\ Val(entry.gameData)[ph][key] # FALSE

calculateAutoPoints(entry) ==
    SumOver(ActionKeys,
            [key \in ActionKeys |->
                IF getActionPoints(key, "auto") > 0
                THEN CounterOrZero(entry, "auto", key \o "Count")
                         * getActionPoints(key, "auto")
                ELSE 0])

calculateTeleopPoints(entry) ==
    SumOver(ActionKeys,
            [key \in ActionKeys |->
                IF getActionPoints(key, "teleop") > 0
                THEN CounterOrZero(entry, "teleop", key \o "Count")
                         * getActionPoints(key, "teleop")
                ELSE 0])

calculateEndgamePoints(entry) ==
    SumOver(PhaseToggles.endgame,
            [key \in PhaseToggles.endgame |->
                IF IsTrue(entry, "endgame", key) THEN getEndgamePoints(key)
                ELSE 0])

\* calculateTotalPoints that leaves the endgame out
calculateTotalPointsNoEndgame(entry) ==
    calculateAutoPoints(entry) + calculateTeleopPoints(entry)

calculateTotalPoints(entry) ==
    calculateAutoPoints(entry) + calculateTeleopPoints(entry)
        + calculateEndgamePoints(entry)

\* phase records: counters and toggles present or not
AutoRecords ==
    PartialRecords({"action1Count", "autoToggle"},
                   [action1Count |-> 0..MaxCount, autoToggle |-> {TRUE}])
TeleopRecords ==
    PartialRecords({"action1Count", "teleopToggle"},
                   [action1Count |-> {1}, teleopToggle |-> {TRUE}])
EndgameRecords ==
    PartialRecords({"option1", "toggle1"},
                   [option1 |-> BOOLEAN, toggle1 |-> {TRUE}])

\* g with the phases of the set S only
OnlyPhases(g, S) == [ph \in S |-> g[ph]]

\* gameData with every phase, with a phase missing, or none at all
GameDataInputs ==
    LET full == [auto : AutoRecords, teleop : TeleopRecords,
                 endgame : EndgameRecords]
    IN full
       \cup {OnlyPhases(g, {"teleop", "endgame"}) : g \in full}
       \cup {OnlyPhases(g, {"auto", "teleop"}) : g \in full}

ScoreEntries ==
    {[gameData |-> None]} \cup {[gameData |-> Some(g)] : g \in GameDataInputs}

\* point tables: every key with a value or without one
PointTables ==
    [auto : PartialRecords({"action1", "autoToggle"},
                           [action1 |-> {3}, autoToggle |-> {5}]),
     teleop : PartialRecords({"action1"}, [action1 |-> {2}]),
     endgame : PartialRecords({"option1", "toggle1"},
                              [option1 |-> {20}, toggle1 |-> {0}])]

\* the four calculations applied to the entry
Score ==
    /\ output = None
    /\ output' = Some([autoPoints |-> calculateAutoPoints(input),
                       teleopPoints |-> calculateTeleopPoints(input),
                       endgamePoints |-> calculateEndgamePoints(input),
                       totalPoints |-> calculateTotalPoints(input)])
    /\ UNCHANGED <<trackerVars, xformVars, pointTable, input>>

InitScore ==
    /\ TrackerInit
    /\ phase = "auto"
    /\ TransformIdle
    /\ pointTable \in PointTables
    /\ input \in ScoreEntries
    /\ output = None

NextScore == Score

SpecScore == InitScore /\ [][NextScore]_vars

(***************************************************************************)
(* Team statistics: calculateTeamStats (team-stats calculations) and       *)
(* calculateBasicStats (strategy analysis).  A number with one decimal is  *)
(* kept in tenths: 133 is 13.3.  Divisions are exact; the fields of the    *)
(* results that only repeat another field or that read counters no entry   *)
(* of the model has (stuck and defense counts, raw values, match results)  *)
(* are left out.                                                           *)
(***************************************************************************)
MaxMatches == 3
MaxStarts == 6

\* sum(arr, fn), with f[i] = fn(arr[i])
RECURSIVE sum(_, _)
sum(f, n) == IF n = 0 THEN 0 ELSE f[n] + sum(f, n - 1)

\* round(n) that cuts the second decimal off
roundDown(num, den) == (10 * num) \div den

\* round(num / den) to one decimal, in tenths: Math.round(n * 10) / 10
round(num, den) == (20 * num + den) \div (2 * den)

\* percent that cuts the decimals off
percentDown(count, total) ==
    IF total > 0 THEN (100 * count) \div total ELSE 0

\* percent(count, total): Math.round((count / total) * 100), 0 for total 0
percent(count, total) ==
    IF total > 0 THEN (200 * count + total) \div (2 * total) ELSE 0

\* val(gameData?.[phase]?.[key]): the number, or 0 for what is no number
val(entry, ph, key) ==
    IF HasField(entry, ph, key) THEN Val(entry.gameData)[ph][key] ELSE 0

\* teamMatches.filter(m => m.gameData?.[phase]?.[key] === true).length
CountTrue(teamMatches, ph, key) ==
    Cardinality({i \in 1..Len(teamMatches) : IsTrue(teamMatches[i], ph, key)})

\* entries.reduce(acc += gameData?.[phase]?.[key] ? 1 : 0)
CountTruthy(entries, ph, key) ==
    Cardinality({i \in 1..Len(entries) : Truthy(entries[i], ph, key)})

posLabels == <<"Left", "Center", "Right", "Pos 3", "Pos 4", "Pos 5">>

\* the buckets of i..5 that are not empty, in order
RECURSIVE StartBuckets(_, _, _)
StartBuckets(teamMatches, matchCount, i) ==
    IF i > 5 THEN <<>>
    ELSE LET count == Cardinality({m \in 1..Len(teamMatches) :
                          /\ HasField(teamMatches[m], "auto", "startPosition")
                          /\ Val(teamMatches[m].gameData).auto.startPosition = i})
             percentage == percent(count, matchCount)
         IN (IF percentage > 0
             THEN <<[position |-> posLabels[i + 1], percentage |-> percentage]>>
             ELSE <<>>)
            \o StartBuckets(teamMatches, matchCount, i + 1)

calculateStartPositions(teamMatches, matchCount) ==
    StartBuckets(teamMatches, matchCount, 0)

getEmptyStats ==
    [matchCount |-> 0, totalPoints |-> 0, autoPoints |-> 0,
     teleopPoints |-> 0, endgamePoints |-> 0,
     overall |-> [avgTotalPoints |-> 0, totalPiecesScored |-> 0,
                  avgGamePiece1 |-> 0, avgGamePiece2 |-> 0],
     auto |-> [avgPoints |-> 0, avgGamePiece1 |-> 0, avgGamePiece2 |-> 0,
               mobilityRate |-> 0, startPositions |-> <<>>],
     teleop |-> [avgPoints |-> 0, avgGamePiece1 |-> 0, avgGamePiece2 |-> 0],
     endgame |-> [avgPoints |-> 0, climbRate |-> 0, parkRate |-> 0,
                  shallowClimbRate |-> 0, deepClimbRate |-> 0]]

calculateTeamStats(teamMatches) ==
    IF Len(teamMatches) = 0 THEN getEmptyStats
    ELSE
    LET matchCount == Len(teamMatches)
        idx == 1..matchCount
        totalAutoPoints ==
            sum([i \in idx |-> calculateAutoPoints(teamMatches[i])], matchCount)
        totalTeleopPoints ==
            sum([i \in idx |-> calculateTeleopPoints(teamMatches[i])], matchCount)
        totalEndgamePoints ==
            sum([i \in idx |-> calculateEndgamePoints(teamMatches[i])], matchCount)
        totalPoints == totalAutoPoints + totalTeleopPoints + totalEndgamePoints
        autoFuelTotal ==
            sum([i \in idx |-> val(teamMatches[i], "auto", "fuelScoredCount")],
                matchCount)
        autoFuelPassedTotal ==
            sum([i \in idx |-> val(teamMatches[i], "auto", "fuelPassedCount")],
                matchCount)
        teleopFuelTotal ==
            sum([i \in idx |-> val(teamMatches[i], "teleop", "fuelScoredCount")],
                matchCount)
        teleopFuelPassedTotal ==
            sum([i \in idx |-> val(teamMatches[i], "teleop", "fuelPassedCount")],
                matchCount)
        fuelScoredSum == autoFuelTotal + teleopFuelTotal
        fuelPassedSum == autoFuelPassedTotal + teleopFuelPassedTotal
        autoClimbCount == CountTrue(teamMatches, "auto", "autoClimbL1")
        climbL1Count == CountTrue(teamMatches, "endgame", "climbL1")
        climbL2Count == CountTrue(teamMatches, "endgame", "climbL2")
        climbL3Count == CountTrue(teamMatches, "endgame", "climbL3")
        climbFailedCount == CountTrue(teamMatches, "endgame", "climbFailed")
        climbSuccessCount == climbL1Count + climbL2Count + climbL3Count
        defenseCount == CountTrue(teamMatches, "teleop", "playedDefense")
    IN [matchCount |-> matchCount,
        totalPoints |-> round(totalPoints, matchCount),
        autoPoints |-> round(totalAutoPoints, matchCount),
        teleopPoints |-> round(totalTeleopPoints, matchCount),
        endgamePoints |-> round(totalEndgamePoints, matchCount),
        overall |-> [avgTotalPoints |-> round(totalPoints, matchCount),
                     totalPiecesScored |-> round(fuelScoredSum, matchCount),
                     avgGamePiece1 |-> round(fuelScoredSum, matchCount),
                     avgGamePiece2 |-> round(fuelPassedSum, matchCount),
                     avgFuelScored |-> round(fuelScoredSum, matchCount),
                     avgFuelPassed |-> round(fuelPassedSum, matchCount)],
        auto |-> [avgPoints |-> round(totalAutoPoints, matchCount),
                  avgGamePiece1 |-> round(autoFuelTotal, matchCount),
                  avgGamePiece2 |-> round(autoFuelPassedTotal, matchCount),
                  mobilityRate |-> 0,
                  autoClimbRate |-> percent(autoClimbCount, matchCount),
                  avgFuelScored |-> round(autoFuelTotal, matchCount),
                  startPositions |->
                      calculateStartPositions(teamMatches, matchCount)],
        teleop |-> [avgPoints |-> round(totalTeleopPoints, matchCount),
                    avgGamePiece1 |-> round(teleopFuelTotal, matchCount),
                    avgGamePiece2 |-> round(teleopFuelPassedTotal, matchCount),
                    avgFuelScored |-> round(teleopFuelTotal, matchCount),
                    avgFuelPassed |-> round(teleopFuelPassedTotal, matchCount),
                    defenseRate |-> percent(defenseCount, matchCount)],
        endgame |-> [avgPoints |-> round(totalEndgamePoints, matchCount),
                     climbL1Rate |-> percent(climbL1Count, matchCount),
                     climbL2Rate |-> percent(climbL2Count, matchCount),
                     climbL3Rate |-> percent(climbL3Count, matchCount),
                     climbSuccessRate |-> percent(climbSuccessCount, matchCount),
                     climbFailedRate |-> percent(climbFailedCount, matchCount),
                     climbRate |-> percent(climbSuccessCount, matchCount),
                     parkRate |-> 0]]

\* String(entry.matchNumber); the empty string stands for a text without
\* digits
MatchNumberString(entry) ==
    IF "matchNumber" \in DOMAIN entry THEN StringOf(entry.matchNumber) ELSE <<>>

\* an element of matchResults
MatchResult(entry) ==
    [matchNumber |-> MatchNumberString(entry),
     totalPoints |-> calculateAutoPoints(entry) + calculateTeleopPoints(entry)
                         + calculateEndgamePoints(entry),
     autoPoints |-> calculateAutoPoints(entry),
     teleopPoints |-> calculateTeleopPoints(entry),
     endgamePoints |-> calculateEndgamePoints(entry),
     gameData |-> entry.gameData]

\* parseInt(a.matchNumber): None is NaN.  parseInt turns a number into its
\* string first
SortKey(a) ==
    LET text == IF "totalPoints" \in DOMAIN a THEN a.matchNumber
                ELSE MatchNumberString(a)
    IN IF Len(text) = 0 THEN None ELSE Some(parseInt(text))

\* the comparator is negative: a goes before b
Before(a, b) ==
    IsSome(SortKey(a)) /\ IsSome(SortKey(b)) /\ Val(SortKey(a)) < Val(SortKey(b))

\* x put into a sorted array, behind what it does not go before
RECURSIVE InsertStable(_, _)
InsertStable(x, sorted) ==
    IF sorted = <<>> THEN <<x>>
    ELSE IF Before(x, sorted[1]) THEN <<x>> \o sorted
    ELSE <<sorted[1]>> \o InsertStable(x, Tail(sorted))

\* arr.sort((a, b) => parseInt(a.matchNumber) - parseInt(b.matchNumber))
RECURSIVE SortByMatchNumber(_)
SortByMatchNumber(arr) ==
    IF arr = <<>> THEN <<>>
    ELSE InsertStable(arr[Len(arr)],
                      SortByMatchNumber(SubSeq(arr, 1, Len(arr) - 1)))

\* the sort applied to the argument itself
SortTargetArgument == "entries"

\* the array that is sorted in place: `matchResults`
SortTarget == "matchResults"

\* the arrays calculateBasicStats can reach, after its map and its sort:
\* `entries.map(...)` is a new array, and sort reorders the array it is
\* called on
ArraysAfterSort(entries) ==
    LET mapped == [entries |-> entries,
                   matchResults |-> [i \in 1..Len(entries) |->
                                        MatchResult(entries[i])]]
    IN [mapped EXCEPT ![SortTarget] = SortByMatchNumber(@)]

\* the start positions counted by calculateBasicStats: every pos >= 0
CountedStarts(entries) ==
    {Val(entries[i].gameData).auto.startPosition :
        i \in {j \in 1..Len(entries) :
                  /\ HasField(entries[j], "auto", "startPosition")
                  /\ Val(entries[j].gameData).auto.startPosition >= 0}}

\* startPositions[`position${pos}`], kept under pos
BasicStartPositions(entries, matchCount) ==
    [pos \in CountedStarts(entries) |->
        (200 * Cardinality({i \in 1..Len(entries) :
                  /\ HasField(entries[i], "auto", "startPosition")
                  /\ Val(entries[i].gameData).auto.startPosition = pos})
            + matchCount) \div (2 * matchCount)]

calculateBasicStats(entries) ==
    IF Len(entries) = 0 THEN
        [matchCount |-> 0, totalPoints |-> 0, autoPoints |-> 0,
         teleopPoints |-> 0, endgamePoints |-> 0,
         overall |-> [avgTotalPoints |-> 0, totalPiecesScored |-> 0,
                      avgGamePiece1 |-> 0, avgGamePiece2 |-> 0],
         auto |-> [avgPoints |-> 0, avgGamePiece1 |-> 0, avgGamePiece2 |-> 0,
                   mobilityRate |-> 0, startPositions |-> <<>>],
         teleop |-> [avgPoints |-> 0, avgGamePiece1 |-> 0, avgGamePiece2 |-> 0],
         endgame |-> [avgPoints |-> 0, climbRate |-> 0, parkRate |-> 0],
         matchesPlayed |-> 0, avgTotalPoints |-> 0, avgAutoPoints |-> 0,
         avgTeleopPoints |-> 0, avgEndgamePoints |-> 0, avgAutoFuel |-> 0,
         avgTeleopFuel |-> 0, avgFuelPassed |-> 0, avgTotalFuel |-> 0,
         mobilityRate |-> 0, autoClimbRate |-> 0, climbL1Rate |-> 0,
         climbL2Rate |-> 0, climbL3Rate |-> 0, climbSuccessRate |-> 0,
         defenseRate |-> 0, startPositions |-> <<>>, matchResults |-> <<>>]
    ELSE
    LET matchCount == Len(entries)
        idx == 1..matchCount
        autoFuel ==
            sum([i \in idx |-> CounterOrZero(entries[i], "auto", "fuelScoredCount")],
                matchCount)
        teleopFuel ==
            sum([i \in idx |-> CounterOrZero(entries[i], "teleop", "fuelScoredCount")],
                matchCount)
        fuelPassed ==
            sum([i \in idx |->
                    CounterOrZero(entries[i], "auto", "fuelPassedCount")
                    + CounterOrZero(entries[i], "teleop", "fuelPassedCount")],
                matchCount)
        mobility == CountTruthy(entries, "auto", "leftStartZone")
        autoClimb == CountTruthy(entries, "auto", "autoClimbL1")
        climbL1 == CountTruthy(entries, "endgame", "climbL1")
        climbL2 == CountTruthy(entries, "endgame", "climbL2")
        climbL3 == CountTruthy(entries, "endgame", "climbL3")
        defense == CountTruthy(entries, "teleop", "playedDefense")
        sumAutoPoints ==
            sum([i \in idx |-> calculateAutoPoints(entries[i])], matchCount)
        sumTeleopPoints ==
            sum([i \in idx |-> calculateTeleopPoints(entries[i])], matchCount)
        sumEndgamePoints ==
            sum([i \in idx |-> calculateEndgamePoints(entries[i])], matchCount)
        climbSuccessCount == climbL1 + climbL2 + climbL3
        startPositions == BasicStartPositions(entries, matchCount)
        avgTotal == round(sumAutoPoints + sumTeleopPoints + sumEndgamePoints,
                          matchCount)
    IN [matchCount |-> matchCount,
        totalPoints |-> sumAutoPoints + sumTeleopPoints + sumEndgamePoints,
        autoPoints |-> sumAutoPoints,
        teleopPoints |-> sumTeleopPoints,
        endgamePoints |-> sumEndgamePoints,
        overall |-> [avgTotalPoints |-> avgTotal,
                     totalPiecesScored |-> round(autoFuel + teleopFuel, matchCount),
                     avgGamePiece1 |-> round(autoFuel + teleopFuel, matchCount),
                     avgGamePiece2 |-> round(fuelPassed, matchCount)],
        auto |-> [avgPoints |-> round(sumAutoPoints, matchCount),
                  avgGamePiece1 |-> round(autoFuel, matchCount),
                  avgGamePiece2 |-> 0,
                  mobilityRate |-> percent(mobility, matchCount),
                  startPositions |-> startPositions],
        teleop |-> [avgPoints |-> round(sumTeleopPoints, matchCount),
                    avgGamePiece1 |-> round(teleopFuel, matchCount),
                    avgGamePiece2 |-> round(fuelPassed, matchCount)],
        endgame |-> [avgPoints |-> round(sumEndgamePoints, matchCount),
                     climbRate |-> percent(climbSuccessCount, matchCount),
                     parkRate |-> 0],
        matchesPlayed |-> matchCount,
        avgTotalPoints |-> avgTotal,
        avgAutoPoints |-> round(sumAutoPoints, matchCount),
        avgTeleopPoints |-> round(sumTeleopPoints, matchCount),
        avgEndgamePoints |-> round(sumEndgamePoints, matchCount),
        avgAutoFuel |-> round(autoFuel, matchCount),
        avgTeleopFuel |-> round(teleopFuel, matchCount),
        avgFuelPassed |-> round(fuelPassed, matchCount),
        avgTotalFuel |-> round(autoFuel + teleopFuel, matchCount),
        mobilityRate |-> percent(mobility, matchCount),
        autoClimbRate |-> percent(autoClimb, matchCount),
        climbL1Rate |-> percent(climbL1, matchCount),
        climbL2Rate |-> percent(climbL2, matchCount),
        climbL3Rate |-> percent(climbL3, matchCount),
        climbSuccessRate |-> percent(climbSuccessCount, matchCount),
        defenseRate |-> percent(defense, matchCount),
        startPositions |-> startPositions,
        matchResults |-> ArraysAfterSort(entries).matchResults]

\* entries that differ in what is scored
PointEntries ==
    {[gameData |-> None]} \cup
    {[gameData |-> Some([auto |-> a, teleop |-> te[1], endgame |-> te[2]])] :
        a \in PartialRecords({"fuelScoredCount"},
                             [fuelScoredCount |-> 0..MaxCount]),
        te \in {<<<<>>, <<>>>>, <<[fuelScoredCount |-> 1], <<>>>>,
                <<<<>>, [climbL1 |-> TRUE]>>}}

\* entries that differ in their toggles
ToggleEntries ==
    {[gameData |-> None]} \cup
    {[gameData |-> Some([auto |-> a, teleop |-> a, endgame |-> e])] :
        a \in {<<>>, [autoClimbL1 |-> TRUE, leftStartZone |-> TRUE,
                      playedDefense |-> TRUE]},
        e \in PartialRecords({"climbL1", "climbL2"},
                             [climbL1 |-> {TRUE}, climbL2 |-> {TRUE}])
                 \cup {[climbFailed |-> TRUE]}}

\* entries that differ in their start position
StartEntries ==
    {[gameData |-> Some([auto |-> a, teleop |-> <<>>, endgame |-> <<>>])] :
        a \in PartialRecords({"startPosition"}, [startPosition |-> 0..2])}

\* the point values of the season the statistics are made under
StatsPoints ==
    [auto |-> [fuelScored |-> 10], teleop |-> [fuelScored |-> 1],
     endgame |-> [climbL1 |-> 10]]

\* entries that differ in their match number
NumberedEntries ==
    {[matchNumber |-> n, gameData |-> g] :
        n \in 1..MaxMatches,
        g \in {None, Some([auto |-> [fuelScoredCount |-> 1],
                           teleop |-> <<>>, endgame |-> <<>>])}}

\* both aggregations applied to the list of entries, and the list as they
\* leave it: calculateTeamStats writes to nothing it did not make
Aggregate ==
    /\ output = None
    /\ output' = Some([teamStats |-> calculateTeamStats(input),
                       basicStats |-> calculateBasicStats(input)])
    /\ input' = ArraysAfterSort(input).entries
    /\ UNCHANGED <<trackerVars, xformVars, pointTable>>

InitStats ==
    /\ TrackerInit
    /\ phase = "auto"
    /\ TransformIdle
    /\ pointTable = StatsPoints
    /\ \/ input \in SeqsUpTo(PointEntries, MaxMatches)
       \/ input \in SeqsUpTo(ToggleEntries, MaxMatches)
       \/ input \in SeqsUpTo(StartEntries, MaxStarts)
    /\ output = None

NextStats == Aggregate

SpecStats == InitStats /\ [][NextStats]_vars

\* the transformation and the aggregations, each applied to its argument
InitPure ==
    \/ /\ TrackerInit
       /\ phase = "auto"
       /\ matchData \in [autoActions : SeqsUpTo(ActionInputs, MaxLogLen),
                         teleopActions : {<<>>, <<TemplateAction("action1")>>},
                         startPosition : {None, Some(<<FALSE, TRUE>>)},
                         autoRobotStatus : {None, Some([leftStartZone |-> TRUE])},
                         teleopRobotStatus : {None},
                         endgameRobotStatus : {None, Some([success |-> TRUE])},
                         comment : {"ok"}]
       /\ result = None
       /\ calls = 0
       /\ robotStatus = NoStatus
       /\ CalcIdle
    \/ /\ TrackerInit
       /\ phase = "auto"
       /\ TransformIdle
       /\ pointTable = StatsPoints
       /\ input \in SeqsUpTo(NumberedEntries, MaxMatches)
       /\ output = None

NextPure == Transform \/ Aggregate

SpecPure == InitPure /\ [][NextPure]_vars

(***************************************************************************)
(* StatusToggles.  The component shows the buttons of one phase and hands  *)
(* each click to onStatusUpdate as an object of updates.  The callback is  *)
(* the parent's; it is taken to lay the updates over the status object of  *)
(* the phase.                                                              *)
(***************************************************************************)
OptionKeys == {"option1", "option2", "option3"}

\* status?.[key], as the buttons read it
Checked(statusObject, key) ==
    key \in DOMAIN statusObject /\ statusObject[key] = TRUE

onStatusUpdate(statusObject, updates) == ObjectAssign(statusObject, updates)

\* updates that set the option and leave the others of its group
OptionUpdatesSetOnly(key) == [k \in {key} |-> TRUE]

\* { option1: false, option2: false, option3: false, [key]: true }
OptionUpdates(key) == [k \in OptionKeys |-> k = key]

\* { [key]: !status?.[key] }
ToggleUpdates(statusObject, key) ==
    [k \in {key} |-> ~Checked(statusObject, key)]

\* a click on a button of the single-selection group
ClickOption(key) ==
    /\ robotStatus' = [robotStatus EXCEPT
                          !.endgame = onStatusUpdate(@, OptionUpdates(key))]
    /\ UNCHANGED <<matchData, result, calls, trackerVars, calcVars>>

\* a click on a toggle button of phase ph
ClickToggle(ph, key) ==
    /\ robotStatus' = [robotStatus EXCEPT
                          ![ph] = onStatusUpdate(@, ToggleUpdates(@, key))]
    /\ UNCHANGED <<matchData, result, calls, trackerVars, calcVars>>

InitToggles ==
    /\ TrackerInit
    /\ phase = "auto"
    /\ TransformIdle
    /\ CalcIdle

NextToggles ==
    \/ ClickToggle("auto", "autoToggle")
    \/ ClickToggle("teleop", "teleopToggle")
    \/ \E key \in OptionKeys : ClickOption(key)
    \/ ClickToggle("endgame", "toggle1")
    \/ ClickToggle("endgame", "toggle2")

SpecToggles == InitToggles /\ [][NextToggles]_vars

(***************************************************************************)
(* Match validation of the 2025 example implementation:                    *)
(* validateTeamsInMatch and mapFieldsForValidation.  A template string is  *)
(* kept as a record of its parts.                                          *)
(***************************************************************************)
MaxEntries == 2
MaxTeam == 3

\* `frc${teamNumber}`
TeamKeyOf(teamNumber) == [prefix |-> "frc", number |-> teamNumber]

\* team_keys.includes(teamKey)
includes(team_keys, teamKey) ==
    \E i \in 1..Len(team_keys) : team_keys[i] = teamKey

\* the callback of allianceEntries.map with the check of the opposite
\* alliance left out of the result
ValidateTeamSameAlliance(entry, tbaMatch, alliance) ==
    LET teamKey == TeamKeyOf(entry.teamNumber)
        wasInMatch == includes(tbaMatch.alliances[alliance].team_keys, teamKey)
        oppositeAlliance == IF alliance = "red" THEN "blue" ELSE "red"
        inOpposite ==
            includes(tbaMatch.alliances[oppositeAlliance].team_keys, teamKey)
    IN IF ~wasInMatch
       THEN IF inOpposite
            THEN [teamNumber |-> entry.teamNumber,
                  wasInMatch |-> TRUE,
                  expectedAlliance |-> alliance,
                  actualAlliance |-> alliance,
                  error |-> [team |-> entry.teamNumber,
                             wasIn |-> oppositeAlliance,
                             notIn |-> alliance]]
            ELSE [teamNumber |-> entry.teamNumber,
                  wasInMatch |-> FALSE,
                  expectedAlliance |-> alliance,
                  error |-> [team |-> entry.teamNumber,
                             text |-> "was not in this match"]]
       ELSE [teamNumber |-> entry.teamNumber,
             wasInMatch |-> TRUE,
             expectedAlliance |-> alliance,
             actualAlliance |-> alliance]

\* the callback of allianceEntries.map
ValidateTeam(entry, tbaMatch, alliance) ==
    LET teamKey == TeamKeyOf(entry.teamNumber)
        wasInMatch == includes(tbaMatch.alliances[alliance].team_keys, teamKey)
        oppositeAlliance == IF alliance = "red" THEN "blue" ELSE "red"
        inOpposite ==
            includes(tbaMatch.alliances[oppositeAlliance].team_keys, teamKey)
    IN IF ~wasInMatch
       THEN IF inOpposite
            THEN [teamNumber |-> entry.teamNumber,
                  wasInMatch |-> TRUE,
                  expectedAlliance |-> alliance,
                  actualAlliance |-> oppositeAlliance,
                  error |-> [team |-> entry.teamNumber,
                             wasIn |-> oppositeAlliance,
                             notIn |-> alliance]]
            ELSE [teamNumber |-> entry.teamNumber,
                  wasInMatch |-> FALSE,
                  expectedAlliance |-> alliance,
                  error |-> [team |-> entry.teamNumber,
                             text |-> "was not in this match"]]
       ELSE [teamNumber |-> entry.teamNumber,
             wasInMatch |-> TRUE,
             expectedAlliance |-> alliance,
             actualAlliance |-> alliance]

validateTeamsInMatch(allianceEntries, tbaMatch, alliance) ==
    [i \in 1..Len(allianceEntries) |->
        ValidateTeam(allianceEntries[i], tbaMatch, alliance)]

\* allianceEntries.reduce((sum, e) => sum + e.gameData[key], 0)
SumCounter(allianceEntries, key) ==
    sum([i \in 1..Len(allianceEntries) |-> allianceEntries[i].gameData[key]],
        Len(allianceEntries))

\* the filter on endgameAttempt alone
CountAttempt(allianceEntries, attempt) ==
    Cardinality({i \in 1..Len(allianceEntries) :
                    allianceEntries[i].gameData.endgameAttempt = attempt})

\* allianceEntries.filter(e => e.gameData.endgameAttempt === attempt
\*                             && e.gameData.endgameSuccess).length
CountClimb(allianceEntries, attempt) ==
    Cardinality({i \in 1..Len(allianceEntries) :
                    /\ allianceEntries[i].gameData.endgameAttempt = attempt
                    /\ allianceEntries[i].gameData.endgameSuccess})

\* allianceEntries.filter(e => e.gameData.autoLeave).length
CountLeave(allianceEntries) ==
    Cardinality({i \in 1..Len(allianceEntries) :
                    allianceEntries[i].gameData.autoLeave})

\* `tba[key]` without `|| 0`: a missing field taken as one
TbaOrOne(tba, key) == IF key \in DOMAIN tba THEN tba[key] ELSE 1

\* `tba[key] || 0`
TbaOrZero(tba, key) == IF key \in DOMAIN tba THEN tba[key] ELSE 0

FieldComparison(category, field, scoutedValue, tbaValue, unit) ==
    [category |-> category, field |-> field, scoutedValue |-> scoutedValue,
     tbaValue |-> tbaValue, unit |-> unit]

mapFieldsForValidation(allianceEntries, tbaScoreBreakdown, alliance) ==
    LET E == allianceEntries
        tba == tbaScoreBreakdown[alliance]
    IN <<FieldComparison("auto-coral", "Auto L1 Coral",
             SumCounter(E, "autoCoralPlaceL1Count"),
             TbaOrZero(tba, "autoCoralL1"), "pieces"),
         FieldComparison("auto-coral", "Auto L2 Coral",
             SumCounter(E, "autoCoralPlaceL2Count"),
             TbaOrZero(tba, "autoCoralL2"), "pieces"),
         FieldComparison("auto-coral", "Auto L3 Coral",
             SumCounter(E, "autoCoralPlaceL3Count"),
             TbaOrZero(tba, "autoCoralL3"), "pieces"),
         FieldComparison("auto-coral", "Auto L4 Coral",
             SumCounter(E, "autoCoralPlaceL4Count"),
             TbaOrZero(tba, "autoCoralL4"), "pieces"),
         FieldComparison("teleop-coral", "Teleop L1 Coral",
             SumCounter(E, "teleopCoralPlaceL1Count"),
             TbaOrZero(tba, "teleopCoralL1"), "pieces"),
         FieldComparison("teleop-coral", "Teleop L2 Coral",
             SumCounter(E, "teleopCoralPlaceL2Count"),
             TbaOrZero(tba, "teleopCoralL2"), "pieces"),
         FieldComparison("teleop-coral", "Teleop L3 Coral",
             SumCounter(E, "teleopCoralPlaceL3Count"),
             TbaOrZero(tba, "teleopCoralL3"), "pieces"),
         FieldComparison("teleop-coral", "Teleop L4 Coral",
             SumCounter(E, "teleopCoralPlaceL4Count"),
             TbaOrZero(tba, "teleopCoralL4"), "pieces"),
         FieldComparison("algae", "Algae Net",
             SumCounter(E, "autoAlgaeNetCount")
                 + SumCounter(E, "teleopAlgaeNetCount"),
             TbaOrZero(tba, "totalAlgaeNet"), "pieces"),
         FieldComparison("algae", "Algae Processor",
             SumCounter(E, "autoAlgaeProcessorCount")
                 + SumCounter(E, "teleopAlgaeProcessorCount"),
             TbaOrZero(tba, "totalAlgaeProcessor"), "pieces"),
         FieldComparison("endgame", "Deep Climb", CountClimb(E, "deep"),
             TbaOrZero(tba, "deepClimbCount"), "robots"),
         FieldComparison("endgame", "Shallow Climb", CountClimb(E, "shallow"),
             TbaOrZero(tba, "shallowClimbCount"), "robots"),
         FieldComparison("endgame", "Park", CountClimb(E, "park"),
             TbaOrZero(tba, "parkCount"), "robots"),
         FieldComparison("mobility", "Left Starting Zone", CountLeave(E),
             TbaOrZero(tba, "autoLeaveCount"), "robots")>>

\* the gameData of a 2025 entry that scored nothing
GameData2025 ==
    [autoCoralPlaceL1Count |-> 0, autoCoralPlaceL2Count |-> 0,
     autoCoralPlaceL3Count |-> 0, autoCoralPlaceL4Count |-> 0,
     autoAlgaeNetCount |-> 0, autoAlgaeProcessorCount |-> 0,
     autoLeave |-> FALSE,
     teleopCoralPlaceL1Count |-> 0, teleopCoralPlaceL2Count |-> 0,
     teleopCoralPlaceL3Count |-> 0, teleopCoralPlaceL4Count |-> 0,
     teleopAlgaeNetCount |-> 0, teleopAlgaeProcessorCount |-> 0,
     endgameAttempt |-> "none", endgameSuccess |-> FALSE]

\* the entries of one robot that differ in what was scouted
ScoutedEntries ==
    {[teamNumber |-> 1,
      gameData |-> [GameData2025 EXCEPT !.autoCoralPlaceL1Count = c,
                                        !.autoAlgaeNetCount = c,
                                        !.teleopAlgaeNetCount = IF l THEN 1 ELSE 0,
                                        !.autoLeave = l,
                                        !.endgameAttempt = e[1],
                                        !.endgameSuccess = e[2]]] :
        c \in 0..MaxCount, l \in BOOLEAN,
        e \in {<<"none", FALSE>>, <<"deep", TRUE>>, <<"deep", FALSE>>}}

\* the entries that differ in their team
TeamEntries ==
    {[teamNumber |-> t, gameData |-> GameData2025] : t \in 1..MaxTeam}

\* the team keys of the teams that play in the alliance, in order
RECURSIVE TeamKeys(_, _, _)
TeamKeys(assign, alliance, t) ==
    IF t > MaxTeam THEN <<>>
    ELSE (IF assign[t] = alliance THEN <<TeamKeyOf(t)>> ELSE <<>>)
             \o TeamKeys(assign, alliance, t + 1)

\* a score breakdown of an alliance with every field the comparison reads
Breakdown ==
    [autoCoralL1 |-> 1, autoCoralL2 |-> 0, autoCoralL3 |-> 0,
     autoCoralL4 |-> 0, teleopCoralL1 |-> 0, teleopCoralL2 |-> 0,
     teleopCoralL3 |-> 0, teleopCoralL4 |-> 2, totalAlgaeNet |-> 1,
     totalAlgaeProcessor |-> 0, deepClimbCount |-> 1,
     shallowClimbCount |-> 0, parkCount |-> 0, autoLeaveCount |-> 1]

\* the match of the authoritative source
TBAMatch(assign, red) ==
    [alliances |-> [red |-> [team_keys |-> TeamKeys(assign, "red", 1)],
                    blue |-> [team_keys |-> TeamKeys(assign, "blue", 1)]],
     score_breakdown |-> [red |-> red, blue |-> Breakdown]]

\* breakdowns with fields missing
Breakdowns ==
    {Breakdown} \cup
    PartialRecords({"autoCoralL1", "deepClimbCount"},
                   [autoCoralL1 |-> {0, 2}, deepClimbCount |-> {1}])

\* the entries of teams against every roster, for either alliance
TeamInputs(es) ==
    {[allianceEntries |-> es, tbaMatch |-> TBAMatch(assign, Breakdown),
      alliance |-> al] :
        assign \in [1..MaxTeam -> {"red", "blue", "none"}],
        al \in {"red", "blue"}}

\* the scouted entries of the red alliance against every breakdown
ScoutedInputs(es) ==
    {[allianceEntries |-> es,
      tbaMatch |-> TBAMatch([t \in 1..MaxTeam |-> "red"], red),
      alliance |-> "red"] : red \in Breakdowns}

ValidateTeams ==
    /\ output = None
    /\ output' = Some([validation |->
                          validateTeamsInMatch(input.allianceEntries,
                                               input.tbaMatch, input.alliance)])
    /\ UNCHANGED <<trackerVars, xformVars, pointTable, input>>

MapFields ==
    /\ output = None
    /\ output' = Some([comparisons |->
                          mapFieldsForValidation(input.allianceEntries,
                                                 input.tbaMatch.score_breakdown,
                                                 input.alliance)])
    /\ UNCHANGED <<trackerVars, xformVars, pointTable, input>>

InitValidate ==
    /\ TrackerInit
    /\ phase = "auto"
    /\ TransformIdle
    /\ pointTable = NoPoints
    /\ \/ \E es \in SeqsUpTo(TeamEntries, MaxEntries) : input \in TeamInputs(es)
       \/ \E es \in SeqsUpTo(ScoutedEntries, MaxEntries) :
              input \in ScoutedInputs(es)
    /\ output = None

NextValidate == ValidateTeams \/ MapFields

SpecValidate == InitValidate /\ [][NextValidate]_vars

(***************************************************************************)
(* Properties.                                                             *)
(***************************************************************************)
QuantityPending ==
    IsSome(pendingWaypoint) /\ Val(pendingWaypoint).type \in {"score", "pass"}

Confirm == TeleopConfirm \/ AutoConfirm
Cancel == TeleopCancel \/ AutoCancel
QuantityUndo == TeleopFuelUndo \/ AutoFuelUndo

SelectionModeActive == isSelectingScore \/ isSelectingPass \/ isSelectingCollect

\* C1: confirming an open score or pass draft with accumulated quantity
\* q > 0 appends exactly one action, of the draft's type and with
\* |fuelDelta| = q, and leaves no draft, accumulated quantity 0 and an empty
\* quantity history.
C1_ConfirmCommitsQuantity ==
    [][(QuantityPending /\ accumulatedFuel > 0 /\ Confirm) =>
          /\ Len(actions') = Len(actions) + 1
          /\ SubSeq(actions', 1, Len(actions)) = actions
          /\ actions'[Len(actions')].type = Val(pendingWaypoint).type
          /\ IsSome(actions'[Len(actions')].fuelDelta)
          /\ Abs(Val(actions'[Len(actions')].fuelDelta)) = accumulatedFuel
          /\ pendingWaypoint' = None
          /\ accumulatedFuel' = 0
          /\ fuelHistory' = <<>>]_vars

\* a pass of quantity 2 was confirmed and no draft is left
C1_Witness ==
    /\ pendingWaypoint = None /\ accumulatedFuel = 0 /\ fuelHistory = <<>>
    /\ Len(actions) > 0
    /\ actions[Len(actions)].type = "pass"
    /\ Abs(FuelOrZero(actions[Len(actions)])) = 2

\* C2: cancelling an open draft (quantity or climb) leaves the log as it
\* was, removes the draft and leaves no selection mode active; nothing of
\* the draft is carried on: the quantity is reset, and every draft opened
\* later starts from quantity 0, an empty history and the default outcome.
C2_CancelDiscardsDraft ==
    [][/\ (IsSome(pendingWaypoint) /\ Cancel) =>
             /\ actions' = actions
             /\ pendingWaypoint' = None
             /\ ~SelectionModeActive'
             /\ accumulatedFuel' = 0
             /\ fuelHistory' = <<>>
       /\ (pendingWaypoint = None /\ IsSome(pendingWaypoint')) =>
             /\ accumulatedFuel' = 0
             /\ fuelHistory' = <<>>
             /\ Val(pendingWaypoint').type = "climb" =>
                   /\ climbResult' = Some("success")
                   /\ phase = "teleop" => climbLevel' = None]_vars

\* a climb draft whose outcome was set to fail has been cancelled
C2_Witness ==
    /\ pendingWaypoint = None
    /\ climbResult = Some("fail")

NoZeroQuantity(log) ==
    \A i \in 1..Len(log) :
        log[i].type \in {"score", "pass"} => FuelOrZero(log[i]) # 0

\* C3: in both phases a confirm issued on a score or pass draft whose
\* accumulated quantity is 0 appends nothing and leaves the draft open, and
\* the log never holds a score or pass action of quantity 0.
C3_NoConfirmAtZero ==
    [][/\ (QuantityPending /\ accumulatedFuel = 0 /\ Confirm) =>
             UNCHANGED <<actions, pendingWaypoint>>
       /\ NoZeroQuantity(actions')]_vars

\* an auto quantity draft is open over a started log with nothing
\* accumulated: its confirm button is disabled
C3_Witness ==
    /\ phase = "auto"
    /\ QuantityPending
    /\ accumulatedFuel = 0
    /\ Len(actions) > 0

\* C4: while a draft is open no selection mode is active, and the draft
\* changes in one way only: confirm or cancel closes it.  So no element tap
\* (nor any other step) opens a second draft or replaces the open one.
C4_OnePendingAction ==
    [][IsSome(pendingWaypoint) =>
          /\ ~SelectionModeActive
          /\ pendingWaypoint' # pendingWaypoint =>
                pendingWaypoint' = None /\ (Confirm \/ Cancel)]_vars

\* a score draft is open over a log that already holds a committed action
C4_Witness ==
    /\ IsSome(pendingWaypoint)
    /\ Val(pendingWaypoint).type = "score"
    /\ \E i \in 1..Len(actions) : actions[i].type # "start"

StuckOpened ==
    \E k \in DOMAIN stuckStarts : stuckStarts[k] = None /\ stuckStarts'[k] # None

\* C5: while the broken-down interval is open no action is appended, no
\* draft is created or confirmed, no selection mode is entered or resolved
\* and no stuck interval is opened or closed.
C5_BrokenDownBlocksInput ==
    [][isBrokenDown =>
          UNCHANGED <<actions, pendingWaypoint, selVars, stuckStarts>>]_vars

C8_UndoOnEmptyIsNoOp ==
    [][((~canUndo /\ Undo) \/ (fuelHistory = <<>> /\ QuantityUndo)) =>
          UNCHANGED <<actions, pendingWaypoint, accumulatedFuel,
                      fuelHistory>>]_vars

\* a teleop quantity draft is open with an empty history over an empty log
C8_Witness ==
    /\ phase = "teleop"
    /\ actions = <<>>
    /\ QuantityPending
    /\ fuelHistory = <<>>

\* C9: the counter record made from a log has auto.fuelScoredCount equal to
\* the sum of |fuelDelta| over the score actions of the auto log.
C9_ScoredCountIsSum ==
    result # None =>
        /\ "fuelScoredCount" \in DOMAIN Val(result).auto
        /\ Val(result).auto.fuelScoredCount
               = SumAbsFuel(matchData.autoActions, "score")

\* C10: a call of transformActionsToCounters on the input of the call
\* before it returns the record that call returned; counts are not added up
\* across calls.
C10_SecondCallSameRecord ==
    [][(calls >= 1 /\ calls' = calls + 1) =>
          result' = result /\ matchData' = matchData]_vars

\* two calls were made on an input whose auto log holds two counted actions
C10_Witness ==
    /\ calls = 2
    /\ result # None
    /\ Val(result).auto.action1Count = 2

\* C11: in both phases every score or pass action of the log that carries
\* a fuelDelta has fuelDelta <= 0, and every collect action that carries
\* one has fuelDelta >= 0.
C11_SignConvention ==
    \A i \in 1..Len(actions) :
        IsSome(actions[i].fuelDelta) =>
            /\ actions[i].type \in {"score", "pass"} =>
                   Val(actions[i].fuelDelta) <= 0
            /\ actions[i].type = "collect" => Val(actions[i].fuelDelta) >= 0

\* the tap of a shot target while a score target is being selected
ScoreTargetTap ==
    /\ isSelectingScore
    /\ \E k \in SHOT_DISTANCES_KEYS : TeleopTapElement(k) \/ AutoTapElement(k)

\* the tap of the pass zone
PassTargetTap ==
    /\ ~isSelectingScore
    /\ TeleopTapElement("pass") \/ AutoTapElement("pass")

\* the tap of a collect zone
CollectTargetTap ==
    /\ ~isSelectingScore
    /\ TeleopTapElement("collect_neutral")

\* the step opens a draft of the kind, at quantity 0 with an empty history,
\* and leaves the log as it was
OpensPending(kind) ==
    /\ IsSome(pendingWaypoint')
    /\ Val(pendingWaypoint').type = kind
    /\ accumulatedFuel' = 0
    /\ fuelHistory' = <<>>
    /\ actions' = actions

\* while a draft is open the log grows by a confirm only
AppendsOnlyOnConfirm ==
    (IsSome(pendingWaypoint) /\ Len(actions') > Len(actions)) => Confirm

\* C12 as stated: the tap of a valid score, pass or collect target opens a
\* draft of that kind at quantity 0 with an empty history and appends
\* nothing, and nothing is appended until the draft is confirmed.
C12_TargetTapOpensPending ==
    [][/\ ScoreTargetTap => OpensPending("score")
       /\ PassTargetTap => OpensPending("pass")
       /\ CollectTargetTap => OpensPending("collect")
       /\ AppendsOnlyOnConfirm]_vars

\* C12 amended: the tap of a valid score or pass target opens a draft of
\* that kind at quantity 0 with an empty history and appends nothing, and
\* nothing is appended until the draft is confirmed; the tap of a collect
\* target opens no draft and appends one collect action of fuelDelta 8.
C12_QuantityTargetTapOpensPending ==
    [][/\ ScoreTargetTap => OpensPending("score")
       /\ PassTargetTap => OpensPending("pass")
       /\ CollectTargetTap =>
             /\ Len(actions') = Len(actions) + 1
             /\ SubSeq(actions', 1, Len(actions)) = actions
             /\ actions'[Len(actions')].type = "collect"
             /\ actions'[Len(actions')].fuelDelta = Some(8)
             /\ pendingWaypoint' = None
       /\ AppendsOnlyOnConfirm]_vars

\* a teleop pass draft is open at quantity 0 over an empty log
C12_Witness ==
    /\ phase = "teleop"
    /\ IsSome(pendingWaypoint)
    /\ Val(pendingWaypoint).type = "pass"
    /\ accumulatedFuel = 0
    /\ fuelHistory = <<>>
    /\ actions = <<>>
    /\ brokenDownStart = None

C14_DefenseStealImmediate ==
    [][\A k \in {"defense_alliance", "steal"} :
          (/\ phase = "teleop"
           /\ pendingWaypoint = None /\ ~SelectionModeActive /\ ~isBrokenDown
           /\ TeleopTapElement(k)) =>
              /\ Len(actions') = Len(actions) + 1
              /\ SubSeq(actions', 1, Len(actions)) = actions
              /\ actions'[Len(actions')].type =
                     (IF k = "steal" THEN "steal" ELSE "defense")
              /\ pendingWaypoint' = None
              /\ ~SelectionModeActive']_vars

\* a steal was committed in teleop and nothing is open
C14_Witness ==
    /\ phase = "teleop"
    /\ pendingWaypoint = None /\ ~SelectionModeActive
    /\ Len(actions) > 0
    /\ actions[Len(actions)].type = "steal"

\* a confirm that commits the open draft
ConfirmCommits ==
    /\ IsSome(pendingWaypoint)
    /\ Confirm
    /\ Len(actions') = Len(actions) + 1

TimeOrdered(log) ==
    \A i \in 1..Len(log) : \A j \in 1..Len(log) :
        i <= j => log[i].timestamp <= log[j].timestamp

ClimbLogComplete(log) ==
    \A i \in 1..Len(log) :
        log[i].type = "climb" =>
            IF phase = "teleop"
            THEN /\ IsSome(log[i].climbLevel)
                 /\ Val(log[i].climbLevel) \in CLIMB_LEVELS
                 /\ log[i].climbResult \in {Some("success"), Some("fail")}
            ELSE log[i].action \in {"climb-success", "climb-fail"}

\* C17: a confirm on a climb draft whose outcome (in teleop: level or
\* outcome) is unset commits nothing.  Every teleop climb action of the log
\* carries a level and an outcome that is success or fail, the ones set at
\* the confirm; an auto climb action is 'climb-success' exactly when the
\* outcome at the confirm was success and 'climb-fail' exactly when it was
\* fail.
C17_ClimbNeedsOutcome ==
    [][/\ (isClimb /\ Confirm /\ (climbResult = None
                                  \/ (phase = "teleop" /\ climbLevel = None))) =>
             UNCHANGED <<actions, pendingWaypoint>>
       /\ (isClimb /\ Confirm /\ Len(actions') > Len(actions)) =>
             /\ climbResult \in {Some("success"), Some("fail")}
             /\ IF phase = "teleop"
                THEN /\ actions'[Len(actions')].climbLevel = climbLevel
                     /\ actions'[Len(actions')].climbResult = climbResult
                ELSE actions'[Len(actions')].action =
                         (IF climbResult = Some("success") THEN "climb-success"
                          ELSE "climb-fail")
       /\ ClimbLogComplete(actions')]_vars

\* a failed climb to the second level was committed in teleop
C17_Witness ==
    /\ phase = "teleop"
    /\ Len(actions) > 0
    /\ actions[Len(actions)].type = "climb"
    /\ actions[Len(actions)].climbLevel = Some("L2")
    /\ actions[Len(actions)].climbResult = Some("fail")

\* the number of actions of the log whose actionType is the given one
Matching(log, actionType) ==
    Cardinality({i \in 1..Len(log) : log[i].actionType = actionType})

KnownActionTypes == {"action1", "action2"}

RECURSIVE KnownOnly(_)
KnownOnly(log) ==
    IF log = <<>> THEN <<>>
    ELSE IF log[1].actionType \in KnownActionTypes
         THEN <<log[1]>> \o KnownOnly(Tail(log))
         ELSE KnownOnly(Tail(log))

\* C19: the record made from an input is the record made from the same
\* input with every action of an actionType other than 'action1' and
\* 'action2' taken out of both logs; such actions raise no error.
C19_UnknownTypesIgnored ==
    result # None =>
        Val(result) = transformActionsToCounters(
            [matchData EXCEPT !.autoActions = KnownOnly(@),
                              !.teleopActions = KnownOnly(@)])

\* a record was made from an auto log that holds a tracker action, which
\* has no actionType, followed by a counted action
C19_Witness ==
    /\ result # None
    /\ Len(matchData.autoActions) = 2
    /\ matchData.autoActions[1].actionType = Undefined
    /\ matchData.autoActions[2].actionType = "action1"

\* C20: the returned record has no autoActions, teleopActions,
\* autoRobotStatus, teleopRobotStatus or endgameRobotStatus key.
C20_NoRawInputsReturned ==
    result # None =>
        DOMAIN Val(result) \cap
            {"autoActions", "teleopActions", "autoRobotStatus",
             "teleopRobotStatus", "endgameRobotStatus"} = {}

\* a record was made from an input with both logs non-empty and all three
\* status objects present
C20_Witness ==
    /\ result # None
    /\ matchData.autoActions # <<>> /\ matchData.teleopActions # <<>>
    /\ matchData.autoRobotStatus # None
    /\ matchData.teleopRobotStatus # None
    /\ matchData.endgameRobotStatus # None

\* C21: for every entry, with whole, partial or no gameData, the total
\* points are the auto points plus the teleop points plus the endgame
\* points.
C21_TotalIsSumOfPhases ==
    output # None =>
        Val(output).totalPoints =
            Val(output).autoPoints + Val(output).teleopPoints
                + Val(output).endgamePoints

\* an entry was scored that has points in every phase
C21_Witness ==
    /\ output # None
    /\ Val(output).autoPoints > 0
    /\ Val(output).teleopPoints > 0
    /\ Val(output).endgamePoints > 0

\* count * value over the action keys that have a value for the phase, plus
\* the value of every toggle of the phase that has one and is true
ConfiguredSum(ph) ==
    SumOver(ActionKeys \cap DOMAIN pointTable[ph],
            [key \in ActionKeys \cap DOMAIN pointTable[ph] |->
                (IF HasField(input, ph, key \o "Count")
                 THEN Val(input.gameData)[ph][key \o "Count"] ELSE 0)
                    * pointTable[ph][key]])
    + SumOver(PhaseToggles[ph] \cap DOMAIN pointTable[ph],
              [key \in PhaseToggles[ph] \cap DOMAIN pointTable[ph] |->
                  IF IsTrue(input, ph, key) THEN pointTable[ph][key] ELSE 0])

\* C22: the points of each phase are the sum of count * value over every
\* action key with a value for that phase, plus the value of every toggle
\* of that phase that has one and is true in the record.
C22_PhasePointsAreConfiguredSums ==
    output # None =>
        /\ Val(output).autoPoints = ConfiguredSum("auto")
        /\ Val(output).teleopPoints = ConfiguredSum("teleop")
        /\ Val(output).endgamePoints = ConfiguredSum("endgame")

\* count * value over the action keys, a key without a value taken at 0
\* and a missing counter as 0
ActionSum(ph) ==
    SumOver(ActionKeys,
            [key \in ActionKeys |->
                (IF HasField(input, ph, key \o "Count")
                 THEN Val(input.gameData)[ph][key \o "Count"] ELSE 0)
                    * (IF key \in DOMAIN pointTable[ph]
                       THEN pointTable[ph][key] ELSE 0)])

EmptyAggregated == input = <<>> /\ output # None

\* The field is there and is 0.
ZeroField(r, k) == k \in DOMAIN r /\ r[k] = 0

\* C24: for an empty list of match records both aggregators return a result
\* with matchCount 0 in which every average and every rate is 0: the rates
\* the result of a non-empty list carries are there and are 0.
C24_EmptyListAllZero ==
    EmptyAggregated =>
        LET T == Val(output).teamStats
            B == Val(output).basicStats
        IN /\ T.matchCount = 0
           /\ B.matchCount = 0
           /\ \A k \in {"avgTotalPoints", "avgAutoPoints", "avgTeleopPoints",
                        "avgEndgamePoints", "mobilityRate", "autoClimbRate",
                        "climbL1Rate", "climbL2Rate", "climbL3Rate",
                        "climbSuccessRate", "defenseRate"} : ZeroField(B, k)
           /\ ZeroField(B.endgame, "climbRate")
           /\ ZeroField(T.overall, "avgTotalPoints")
           /\ \A ph \in {"auto", "teleop", "endgame"} : ZeroField(T[ph], "avgPoints")
           /\ \A k \in {"mobilityRate", "autoClimbRate"} : ZeroField(T.auto, k)
           /\ ZeroField(T.teleop, "defenseRate")
           /\ \A k \in {"climbL1Rate", "climbL2Rate", "climbL3Rate",
                        "climbSuccessRate", "climbFailedRate", "climbRate"} :
                  ZeroField(T.endgame, k)

\* A non-empty list of entries has been aggregated.
ListAggregated == Len(input) > 0 /\ output # None

\* The points of one phase, per record.
PhasePoints(ph) ==
    [i \in 1..Len(input) |->
        CASE ph = "auto" -> calculateAutoPoints(input[i])
          [] ph = "teleop" -> calculateTeleopPoints(input[i])
          [] ph = "endgame" -> calculateEndgamePoints(input[i])]

\* a, in tenths, is the mean of the n numbers that sum to S, rounded half up
\* to one decimal.
IsRoundedMean(a, S, n) == 20 * S - n < 2 * a * n /\ 2 * a * n <= 20 * S + n

\* C25: for a non-empty list each per-phase average of either aggregator is
\* the mean of the per-record points of that phase rounded to one decimal.
C25_PhaseAveragesAreRoundedMeans ==
    ListAggregated =>
        LET T == Val(output).teamStats
            B == Val(output).basicStats
            n == Len(input)
            S(ph) == sum(PhasePoints(ph), n)
        IN /\ \A ph \in {"auto", "teleop", "endgame"} :
                  /\ IsRoundedMean(T[ph].avgPoints, S(ph), n)
                  /\ IsRoundedMean(B[ph].avgPoints, S(ph), n)
           /\ IsRoundedMean(B.avgAutoPoints, S("auto"), n)
           /\ IsRoundedMean(B.avgTeleopPoints, S("teleop"), n)
           /\ IsRoundedMean(B.avgEndgamePoints, S("endgame"), n)

\* Three records with 10, 10 and 0 auto points have been averaged to 6.7,
\* and three with 10, 20 and 0 to 10.
C25_Witness ==
    /\ ListAggregated
    /\ Len(input) = 3
    /\ PhasePoints("auto") \in {<<10, 10, 0>>, <<10, 20, 0>>}
    /\ Val(output).teamStats.auto.avgPoints \in {67, 100}
    /\ Val(output).basicStats.avgAutoPoints \in {67, 100}

\* C26: every rate of the result of a non-empty list is an integer between
\* 0 and 100.
C26_RatesArePercentages ==
    ListAggregated =>
        LET T == Val(output).teamStats
            B == Val(output).basicStats
        IN /\ \A k \in {"mobilityRate", "autoClimbRate", "climbL1Rate",
                        "climbL2Rate", "climbL3Rate", "climbSuccessRate",
                        "defenseRate"} : B[k] \in 0..100
           /\ B.endgame.climbRate \in 0..100
           /\ \A k \in {"mobilityRate", "autoClimbRate"} : T.auto[k] \in 0..100
           /\ T.teleop.defenseRate \in 0..100
           /\ \A k \in {"climbL1Rate", "climbL2Rate", "climbL3Rate",
                        "climbSuccessRate", "climbFailedRate", "climbRate"} :
                  T.endgame[k] \in 0..100

\* The number of entries that started in position p.
StartCount(p) ==
    Cardinality({i \in 1..Len(input) :
                    /\ HasField(input[i], "auto", "startPosition")
                    /\ Val(input[i].gameData).auto.startPosition = p})

\* The percentages of the histogram of calculateTeamStats, added up.
TeamStartSum ==
    LET sp == Val(output).teamStats.auto.startPositions
    IN sum([i \in 1..Len(sp) |-> sp[i].percentage], Len(sp))

\* The percentages of the histogram of calculateBasicStats, added up.
BasicStartSum ==
    LET sp == Val(output).basicStats.startPositions
    IN SumOver(DOMAIN sp, sp)

\* C27 as stated: the percentages of the start-position histogram sum to at
\* most 100.
C27_StartPercentagesSumAtMost100 ==
    ListAggregated => TeamStartSum <= 100 /\ BasicStartSum <= 100

\* p is c of n as a percentage rounded half up.
IsRoundedPercent(p, c, n) ==
    200 * c - n < 2 * p * n /\ 2 * p * n <= 200 * c + n

\* C27: each bucket of the start-position histogram is the rounded
\* percentage of the entries that started in its position, the entries
\* counted are at most matchCount, and the percentages sum to at most 100
\* plus half a point per bucket.
C27_StartPercentagesAreRounded ==
    ListAggregated =>
        LET T == Val(output).teamStats.auto.startPositions
            B == Val(output).basicStats.startPositions
            n == Len(input)
        IN /\ \A i \in 1..Len(T) :
                  \E p \in 0..5 :
                      /\ posLabels[p + 1] = T[i].position
                      /\ StartCount(p) > 0
                      /\ IsRoundedPercent(T[i].percentage, StartCount(p), n)
           /\ \A p \in DOMAIN B :
                  StartCount(p) > 0 /\ IsRoundedPercent(B[p], StartCount(p), n)
           /\ SumOver(DOMAIN B, [p \in DOMAIN B |-> StartCount(p)]) <= n
           /\ 2 * TeamStartSum <= 200 + Len(T)
           /\ 2 * BasicStartSum <= 200 + Cardinality(DOMAIN B)

\* Six entries, four in one position and one in each of two others, have
\* been counted: 67 + 17 + 17.
C27_Witness ==
    /\ ListAggregated
    /\ Len(input) = 6
    /\ StartCount(0) = 4 /\ StartCount(1) = 1 /\ StartCount(2) = 1
    /\ TeamStartSum = 101
    /\ BasicStartSum = 101

\* validateTeamsInMatch has returned.
TeamsValidated == output # None /\ "validation" \in DOMAIN Val(output)

\* The team plays in the alliance, by the roster of the authoritative match.
InRoster(teamNumber, alliance) ==
    \E k \in 1..Len(input.tbaMatch.alliances[alliance].team_keys) :
        input.tbaMatch.alliances[alliance].team_keys[k]
            = [prefix |-> "frc", number |-> teamNumber]

\* C28: validateTeamsInMatch returns one result per entry, in order; a team
\* of the expected roster was in the match, in the expected alliance, with
\* no error; a team of the opposing roster only gets the opposing alliance
\* and a wrong-alliance error; a team of neither roster was not in the match
\* and gets a not-in-match error.  A result depends on its own entry only.
C28_OneResultPerEntry ==
    TeamsValidated =>
        LET R == Val(output).validation
            E == input.allianceEntries
            al == input.alliance
            opp == IF al = "red" THEN "blue" ELSE "red"
        IN /\ Len(R) = Len(E)
           /\ \A i \in 1..Len(E) :
                  LET t == E[i].teamNumber
                  IN /\ R[i].teamNumber = t
                     /\ R[i].expectedAlliance = al
                     /\ InRoster(t, al) =>
                            /\ R[i].wasInMatch
                            /\ R[i].actualAlliance = al
                            /\ "error" \notin DOMAIN R[i]
                     /\ (~InRoster(t, al) /\ InRoster(t, opp)) =>
                            /\ R[i].actualAlliance = opp
                            /\ R[i].error = [team |-> t, wasIn |-> opp, notIn |-> al]
                     /\ (~InRoster(t, al) /\ ~InRoster(t, opp)) =>
                            /\ ~R[i].wasInMatch
                            /\ "actualAlliance" \notin DOMAIN R[i]
                            /\ R[i].error = [team |-> t,
                                             text |-> "was not in this match"]

\* Two entries have been validated, the first of the opposing roster and the
\* second of neither; and two, the first of the expected roster.
C28_Witness ==
    /\ TeamsValidated
    /\ Len(input.allianceEntries) = 2
    /\ LET R == Val(output).validation
       IN \/ /\ R[1].wasInMatch /\ R[1].actualAlliance # input.alliance
             /\ ~R[2].wasInMatch
          \/ /\ R[1].wasInMatch /\ R[1].actualAlliance = input.alliance
             /\ "error" \in DOMAIN R[2]

\* mapFieldsForValidation has returned.
FieldsMapped == output # None /\ "comparisons" \in DOMAIN Val(output)

\* The metrics compared, each with the counters it sums and the field of
\* the authoritative breakdown it is compared with.
Metrics ==
    <<[field |-> "Auto L1 Coral", counters |-> {"autoCoralPlaceL1Count"},
       tba |-> "autoCoralL1"],
      [field |-> "Auto L2 Coral", counters |-> {"autoCoralPlaceL2Count"},
       tba |-> "autoCoralL2"],
      [field |-> "Auto L3 Coral", counters |-> {"autoCoralPlaceL3Count"},
       tba |-> "autoCoralL3"],
      [field |-> "Auto L4 Coral", counters |-> {"autoCoralPlaceL4Count"},
       tba |-> "autoCoralL4"],
      [field |-> "Teleop L1 Coral", counters |-> {"teleopCoralPlaceL1Count"},
       tba |-> "teleopCoralL1"],
      [field |-> "Teleop L2 Coral", counters |-> {"teleopCoralPlaceL2Count"},
       tba |-> "teleopCoralL2"],
      [field |-> "Teleop L3 Coral", counters |-> {"teleopCoralPlaceL3Count"},
       tba |-> "teleopCoralL3"],
      [field |-> "Teleop L4 Coral", counters |-> {"teleopCoralPlaceL4Count"},
       tba |-> "teleopCoralL4"],
      [field |-> "Algae Net",
       counters |-> {"autoAlgaeNetCount", "teleopAlgaeNetCount"},
       tba |-> "totalAlgaeNet"],
      [field |-> "Algae Processor",
       counters |-> {"autoAlgaeProcessorCount", "teleopAlgaeProcessorCount"},
       tba |-> "totalAlgaeProcessor"],
      [field |-> "Deep Climb", climbed |-> "deep", tba |-> "deepClimbCount"],
      [field |-> "Shallow Climb", climbed |-> "shallow",
       tba |-> "shallowClimbCount"],
      [field |-> "Park", climbed |-> "park", tba |-> "parkCount"],
      [field |-> "Left Starting Zone", toggle |-> "autoLeave",
       tba |-> "autoLeaveCount"]>>

\* The breakdown of the alliance compared.
AllianceBreakdown == input.tbaMatch.score_breakdown[input.alliance]

\* C29: mapFieldsForValidation returns the same comparisons, one per metric
\* and in the same order, for every input; a metric whose authoritative
\* field is missing is compared with tbaValue 0 and not skipped.
C29_MissingFieldComparedAsZero ==
    FieldsMapped =>
        LET C == Val(output).comparisons
        IN /\ Len(C) = Len(Metrics)
           /\ \A i \in 1..Len(Metrics) :
                  /\ C[i].field = Metrics[i].field
                  /\ Metrics[i].tba \notin DOMAIN AllianceBreakdown =>
                         C[i].tbaValue = 0

\* A breakdown without deepClimbCount has been compared with entries of
\* which one climbed deep: the row is there, 1 against 0.
C29_Witness ==
    /\ FieldsMapped
    /\ "deepClimbCount" \notin DOMAIN AllianceBreakdown
    /\ Val(output).comparisons[11] =
           [category |-> "endgame", field |-> "Deep Climb", scoutedValue |-> 1,
            tbaValue |-> 0, unit |-> "robots"]

\* What the alliance's entries add up to for a metric.
RECURSIVE ScoutedTotal(_, _)
ScoutedTotal(m, n) ==
    IF n = 0 THEN 0
    ELSE LET g == input.allianceEntries[n].gameData
         IN ScoutedTotal(m, n - 1)
            + (IF "counters" \in DOMAIN m
               THEN SumOver(m.counters, [k \in m.counters |-> g[k]])
               ELSE IF "toggle" \in DOMAIN m
               THEN (IF g[m.toggle] THEN 1 ELSE 0)
               ELSE (IF g.endgameAttempt = m.climbed /\ g.endgameSuccess
                     THEN 1 ELSE 0))

\* C30: in every comparison scoutedValue is the sum of the metric's counter
\* over the alliance's entries (for a boolean, the number of entries where
\* it is true) and tbaValue is the value of the authoritative breakdown.
C30_ComparisonValues ==
    FieldsMapped =>
        LET C == Val(output).comparisons
        IN \A i \in 1..Len(Metrics) :
               /\ C[i].scoutedValue
                      = ScoutedTotal(Metrics[i], Len(input.allianceEntries))
               /\ Metrics[i].tba \in DOMAIN AllianceBreakdown =>
                      C[i].tbaValue = AllianceBreakdown[Metrics[i].tba]

\* Two entries, one that climbed deep and one that tried and failed, with
\* three auto L1 corals and a leave between them, have been compared with a
\* breakdown that has 2 auto L1 corals.
C30_Witness ==
    /\ FieldsMapped
    /\ Len(input.allianceEntries) = 2
    /\ input.allianceEntries[1].gameData.endgameSuccess
    /\ input.allianceEntries[2].gameData.endgameAttempt = "deep"
    /\ ~input.allianceEntries[2].gameData.endgameSuccess
    /\ LET C == Val(output).comparisons
       IN /\ C[1].scoutedValue = 3 /\ C[1].tbaValue = 2
          /\ C[9].scoutedValue = 4
          /\ C[11].scoutedValue = 1
          /\ C[14].scoutedValue = 1

\* C31: the broken-down interval is independent of the action log: a step
\* that appends an action or undoes the last one leaves the open-interval
\* start and the total downtime unchanged, and toggling broken-down leaves
\* the log unchanged.
C31_BrokenDownIndependentOfLog ==
    [][/\ actions' # actions =>
              UNCHANGED <<brokenDownStart, totalBrokenDownTime>>
       /\ BrokenDownToggle => UNCHANGED actions]_vars

\* C35: the total downtime is the sum of the durations of the intervals
\* that were opened, each counted once: it grows by now - start in the step
\* that ends the interval opened at start, changes in no other step, and
\* never decreases.
C35_DowntimeIsSumOfIntervals ==
    [][/\ totalBrokenDownTime' >= totalBrokenDownTime
       /\ IF IsSome(brokenDownStart) /\ brokenDownStart' = None
          THEN totalBrokenDownTime' =
                   totalBrokenDownTime + (now - Val(brokenDownStart))
          ELSE totalBrokenDownTime' = totalBrokenDownTime]_vars

\* C36: the stored copy agrees with the state in memory: the BrokenDownStart
\* key is stored exactly when an interval is open, and the stored
\* BrokenDownTime (0 when there is none) is the total in memory.
C36_StorageAgreesWithMemory ==
    /\ IsSome(localStorage.BrokenDownStart) <=> IsSome(brokenDownStart)
    /\ (IF IsSome(localStorage.BrokenDownTime)
        THEN Val(localStorage.BrokenDownTime) ELSE 0) = totalBrokenDownTime

\* The draft that is open takes a quantity.
QuantityOpen == IsSome(pendingWaypoint) /\ Val(pendingWaypoint).type # "climb"

\* The sum of the deltas of a quantity history.
RECURSIVE HistorySum(_)
HistorySum(h) == IF h = <<>> THEN 0 ELSE h[1] + HistorySum(Tail(h))

\* A quantity button was tapped.
QuantityTap == \E v \in FuelOptions : TeleopFuelTap(v) \/ AutoFuelTap(v)

\* C32: while a quantity draft is open the accumulated quantity is the sum
\* of the deltas of the quantity history; a tap of v pushes v and adds it,
\* and undo-quantity pops the last delta and takes it off, so that a tap
\* followed by undo-quantity gives back both as they were.
C32_QuantityIsSumOfHistory ==
    [][/\ QuantityOpen' => accumulatedFuel' = HistorySum(fuelHistory')
       /\ QuantityTap =>
              /\ Len(fuelHistory') = Len(fuelHistory) + 1
              /\ SubSeq(fuelHistory', 1, Len(fuelHistory)) = fuelHistory
              /\ accumulatedFuel' - fuelHistory'[Len(fuelHistory')]
                     = accumulatedFuel
       /\ (QuantityUndo /\ fuelHistory # <<>>) =>
              /\ fuelHistory' = SubSeq(fuelHistory, 1, Len(fuelHistory) - 1)
              /\ accumulatedFuel'
                     = accumulatedFuel - fuelHistory[Len(fuelHistory)]]_vars

\* Three taps, 1, 2 and 1, are on the history of an open pass draft.
C32_Witness ==
    /\ QuantityOpen
    /\ Val(pendingWaypoint).type = "pass"
    /\ fuelHistory = <<1, 2, 1>>
    /\ accumulatedFuel = 4

\* C33: whenever no draft is open the accumulated quantity is 0 and the
\* quantity history is empty.
C33_NoDraftNoQuantity ==
    pendingWaypoint = None => accumulatedFuel = 0 /\ fuelHistory = <<>>

\* An action was confirmed with a quantity of 3, and nothing is left of it.
C33_Witness ==
    /\ pendingWaypoint = None
    /\ \E i \in 1..Len(actions) :
           /\ actions[i].type = "score"
           /\ actions[i].fuelDelta = Some(-3)
    /\ accumulatedFuel = 0
    /\ fuelHistory = <<>>

\* C34: in the auto phase a log that is not empty starts with the start
\* position.
C34_LogStartsWithStart ==
    (phase = "auto" /\ actions # <<>>) => actions[1].type = "start"

\* C37: calculateBasicStats and calculateTeamStats report the same value for
\* every metric they both name: matchCount, totalPoints, autoPoints,
\* teleopPoints, endgamePoints, overall.avgTotalPoints, auto.avgPoints,
\* auto.mobilityRate, teleop.avgPoints, endgame.avgPoints and
\* endgame.climbRate.  Numbers with one decimal are in tenths on both sides;
\* the whole numbers of calculateBasicStats are brought to tenths.
C37_SameNamedMetricsAgree ==
    ListAggregated =>
        LET team == Val(output).teamStats
            basic == Val(output).basicStats
        IN /\ team.matchCount = basic.matchCount
           /\ team.totalPoints = 10 * basic.totalPoints
           /\ team.autoPoints = 10 * basic.autoPoints
           /\ team.teleopPoints = 10 * basic.teleopPoints
           /\ team.endgamePoints = 10 * basic.endgamePoints
           /\ team.overall.avgTotalPoints = basic.overall.avgTotalPoints
           /\ team.auto.avgPoints = basic.auto.avgPoints
           /\ team.auto.mobilityRate = basic.auto.mobilityRate
           /\ team.teleop.avgPoints = basic.teleop.avgPoints
           /\ team.endgame.avgPoints = basic.endgame.avgPoints
           /\ team.endgame.climbRate = basic.endgame.climbRate

\* C38: the transformation and the aggregations write to nothing they were
\* given: a call of transformActionsToCounters leaves matchData as it was,
\* and calculateTeamStats and calculateBasicStats leave the array of entries
\* and every entry of it as they were.
C38_ArgumentsUnchanged ==
    [][/\ Transform => matchData' = matchData
       /\ Aggregate => input' = input]_vars

\* an aggregation of entries given out of match order, returned in match
\* order
C38_Witness ==
    /\ output # None
    /\ Len(input) = 2
    /\ "matchNumber" \in DOMAIN input[1]
    /\ input[1].matchNumber > input[2].matchNumber
    /\ Val(output).basicStats.matchResults[1].matchNumber
           = StringOf(input[2].matchNumber)

\* the status object given for a phase of the result
StatusOf(md, p) ==
    CASE p = "auto" -> md.autoRobotStatus
      [] p = "teleop" -> md.teleopRobotStatus
      [] p = "endgame" -> md.endgameRobotStatus

\* the value the fold alone leaves under key k of phase p
FoldedValue(md, p, k, startPosition) ==
    IF p = "auto" /\ k = "action1Count"
    THEN CountActionType(md.autoActions, "action1")
    ELSE IF p = "auto" /\ k = "action2Count"
    THEN CountActionType(md.autoActions, "action2")
    ELSE IF p = "teleop" /\ k = "action1Count"
    THEN CountActionType(md.teleopActions, "action1")
    ELSE IF p = "teleop" /\ k = "action2Count"
    THEN CountActionType(md.teleopActions, "action2")
    ELSE DefaultResult(startPosition)[p][k]

\* C39: the status toggles are laid over the fold: for every key of
\* autoRobotStatus, teleopRobotStatus and endgameRobotStatus the phase record
\* of the result holds exactly the status value, and every other key of the
\* phase record keeps its folded or default value.
C39_StatusOverlaysFold ==
    result # None =>
        \A p \in {"auto", "teleop", "endgame"} :
            LET status == IF StatusOf(matchData, p) = None THEN <<>>
                          ELSE Val(StatusOf(matchData, p))
                record == Val(result)[p]
            IN /\ \A k \in DOMAIN status : 
                      k \in DOMAIN record /\ record[k] = status[k]
               /\ \A k \in DOMAIN record \ DOMAIN status :
                      record[k] = FoldedValue(matchData, p, k,
                                              Val(result).auto.startPosition)

\* a status value that replaces a default, next to a folded count
C39_Witness ==
    /\ result # None
    /\ matchData.endgameRobotStatus = Some([success |-> TRUE])
    /\ Val(result).endgame.success = TRUE
    /\ DefaultResult(None).endgame.success = FALSE
    /\ matchData.autoRobotStatus # None
    /\ Val(result).auto.action1Count = 1

\* the options of the single-selection group that are set
SelectedOptions == {k \in OptionKeys : Checked(robotStatus.endgame, k)}

\* the endgame status under key k, read as the buttons read it
EndgameChecked(k) == Checked(robotStatus.endgame, k)

\* C40: in the endgame status toggles the single-selection group stays
\* single: after any clicks at most one of option1, option2, option3 is true;
\* and a click on toggle1 or toggle2 flips that toggle only and leaves the
\* options and the other toggle as they were.
C40_SingleSelectionStaysSingle ==
    [][/\ Cardinality(SelectedOptions) <= 1
       /\ Cardinality(SelectedOptions') <= 1
       /\ \A key \in {"toggle1", "toggle2"} :
            ClickToggle("endgame", key) =>
                /\ EndgameChecked(key)' = ~EndgameChecked(key)
                /\ \A k \in (OptionKeys \cup {"toggle1", "toggle2"}) \ {key} :
                       /\ (k \in DOMAIN robotStatus.endgame')
                              = (k \in DOMAIN robotStatus.endgame)
                       /\ EndgameChecked(k)' = EndgameChecked(k)]_vars

\* an option chosen after another one, with one toggle set and then the
\* other set and cleared
C40_Witness ==
    /\ SelectedOptions = {"option2"}
    /\ "option1" \in DOMAIN robotStatus.endgame
    /\ EndgameChecked("toggle1")
    /\ "toggle2" \in DOMAIN robotStatus.endgame
    /\ ~EndgameChecked("toggle2")
====
